---- MODULE Spec2Model ----
(***************************************************************************)
(* Krylex: a streaming-broadcast engine.                                   *)
(*                                                                         *)
(* The repository holds two WebSocketGateway modules.  src/unnamed/part_002 *)
(* exports an instance (initialize / addTradeToBatch / getMetrics /        *)
(* shutdown, the shape the backend entry point and the HTTP server use);   *)
(* src/unnamed/part_001 exports a class with static initialize /           *)
(* addTradeToBatch / shutdown.  Both are modelled: `variant` is chosen in   *)
(* Init and selects whose handlers run.                                     *)
(*                                                                         *)
(* The mock-data-generator's StreamRunner is modelled as a second state     *)
(* machine (SpecRunner) over its own variables.                             *)
(***************************************************************************)
EXTENDS Integers, Sequences, FiniteSets, TLC

(***************************************************************************)
(* Bounds of the model.                                                    *)
(***************************************************************************)
MaxConns == 2
MaxRuns == 2
\* shutdown() calls that may be waiting for the server to close.
MaxShutdowns == 2
\* Trades an engine generates when called directly or by the service.
MaxSteps == 2
\* Ticks of the backend's stream interval.
MaxTicks == 2
\* Times the hook's url changes while it is mounted.
MaxRenders == 1
\* The schedulers' target rate, in trades per second.
MaxRate == 4
\* addTrades actions dispatched to the store.
MaxAdds == 3
\* Signals and uncaught errors delivered to the application.
MaxSignals == 2
\* totalTrades of a StreamRunner, and the trades its runs generate in all;
\* batchSize of a StreamRunner and BATCH_SIZE of the service.
MaxTotal == 3
MaxBatch == 3

(***************************************************************************)
(* Program constants.                                                      *)
(***************************************************************************)
messageBufferSize == 50
HeartbeatIntervalMs == 60000
HeartbeatTimeoutMs == 90000

\* Granularity of the modelled clock: a third of a sweep period.
TimeStep == HeartbeatIntervalMs \div 3
\* Every age above the timeout is expired alike.
AgeCap == HeartbeatTimeoutMs + TimeStep

Sockets == 1..MaxConns
MessageTypes == {"ping", "subscribe", "unknown", "malformed"}
\* addTradeToBatch is called once per trade; the broker subscription hands
\* trades over one by one or in an uninterrupted run of them.
RunLengths == {1, messageBufferSize}

\* useWebSocket: the attempt limit, the first reconnect delay and the
\* ceiling of the delay.  Delays are counted in microseconds, which keeps
\* the products by 1.5 whole.
maxReconnectAttempts == 5
initialReconnectDelayMs == 3000
maxReconnectDelayMs == 30000
UsPerMs == 1000

\* The trades of one inbound batch, and the inbound trades the model lets
\* arrive (waiting for a flush or flushed to the store).
MaxTrades == 2
MaxInbound == 3
TradeIds == {1, 2}

VARIABLES
    variant,        \* "instance" (part_002) or "static" (part_001)
    rs,             \* ws.readyState of each socket ("NONE": not connected;
                    \* "TCP": connected, no upgrade request received yet;
                    \* "ENDED": ended without ever upgrading)
    clientId,       \* the clientId each connection handler's closure captured
    clients,        \* this.clients, a Map in insertion order: <<[id, ws]>>
    isAlive,        \* clientInfo.isAlive / client.isAlive
    wsIsAlive,      \* ws.isAlive (part_002 only)
    sinceHeartbeat, \* Date.now() - client.lastHeartbeat (part_001 only)
    sinceSweep,     \* time since the part_001 heartbeat interval last fired
    messageBuffer,  \* this.messageBuffer (part_002) / this.tradeBuffer (part_001)
    enqueued,       \* trades handed to addTradeToBatch so far (the next trade is enqueued + 1)
    runs,           \* runs of addTradeToBatch calls so far
    flushedUpTo,    \* history: the highest trade a flush has taken out of the buffer
    tickMark,       \* history: the trades enqueued before the last flush tick
    probed,         \* history: a probe went out to the socket and is unanswered
    missedLast,     \* history: the last sweep found the socket's previous probe unanswered
    everMissed,     \* history: some sweep found the socket's previous probe unanswered
    staleAt,        \* history: the trades enqueued before the last flush tick before the socket's admission
    ev,             \* history: what the last handler did
    broadcastInterval,  \* this.broadcastInterval names an active interval
    shutdownCalled,     \* shutdown() has been called: the server listens no more
    shutdownPending,    \* shutdown() calls whose promise is not yet resolved
    isRunning,          \* this.isRunning
    \* ---- StreamRunner ----
    totalTrades, batchSize, hasOnStats, hasOnBatch, hasOnTrade,
    running, totalEmitted, timer, statsTimer, statsWindowCount,
    promise, stopCalled, sr,
    tradesPerSecond,    \* this.tradesPerSecond
    intervalMs,         \* the interval start() created the emission timer with
    reported,           \* history: the sum of the window counts of the stats
                        \* reports since the start() that started the run
    \* ---- useWebSocket ----
    urlOk,              \* new WebSocket(url) accepts the url
    hook,               \* "new", "mounted" or "unmounted"
    wsState,            \* ws.current.readyState ("NONE": ws.current is null)
    connected,          \* the store's isConnected
    reconnectAttempts,  \* reconnectAttempts.current
    reconnectDelay,     \* reconnectDelay.current, in microseconds
    inboundBuffer,      \* messageBuffer.current
    flushInterval,      \* flushInterval.current and the active flush intervals
    heartbeatInterval,  \* heartbeatInterval.current and the active keepalive intervals
    reconnectTimers,    \* pending reconnect timeouts
    delays,             \* history: the delays of the reconnects scheduled since the last open
    cl,                 \* history: what the last handler of the hook did
    orphans,            \* the sockets ws.current refers to no more, by readyState
    renders,            \* the times the effect ran again for another url
    \* ---- TradeGenerator ----
    engine,                 \* "mock" (part_006) or "backend" (part_003)
    price,                  \* _state[sym].price in cents / symbolPrices[sym] as a numerator
    basePrice,              \* _state[sym].basePrice in cents / the price initializeSymbolPrices drew, in dollars
    scale,                  \* part_003: the power of PriceDen under price[sym]
    momentum,               \* _state[sym].momentum, in percent
    volatilityMultiplier,   \* _state[sym].volatilityMultiplier, in thousandths
    symbolVolatility,       \* part_003: symbolVolatility[sym], in units of 5/256
    tradeId,                \* _tradeId / tradeId
    generated,              \* trades generated so far
    lastId,                 \* history: the id of the last trade returned
    eg,                     \* history: what the last call of the engine did
    \* ---- DataStreamingService ----
    dsBatchSize,        \* BATCH_SIZE
    dsTradesPerSecond,  \* TRADES_PER_SECOND
    dsIntervalMs,       \* the interval start() created the stream interval with
    dsIsRunning,        \* this.isRunning
    streamInterval,     \* this.streamInterval and the active stream intervals
    inFlight,           \* callbacks waiting for their publish to settle
    tradesGenerated, tradesPublished, batchesPublished, errors,   \* this.stats
    dsTicks,            \* ticks so far
    sv,                 \* history: what the last step of the service did
    \* ---- the event loop ----
    task,               \* the loop over the registry in progress, what it has left
    \* ---- the frontend's store (trades slice) ----
    stTrades,           \* state.trades
    symbolFilter,       \* state.symbolFilter
    sideFilter,         \* state.sideFilter
    stAdded,            \* history: every trade handed to addTrades, in order
    stCleared,          \* history: how many of them came before the last clearTrades
    adds,               \* addTrades actions dispatched from outside the hook so far
    sl,                 \* history: the last action dispatched from outside the hook
    \* ---- Application (backend entry point) ----
    httpServer,         \* this.httpServer is set
    isShuttingDown,     \* this.isShuttingDown
    appPc,              \* what the shutdown in progress is waiting for
    steps,              \* history: the shutdown steps begun so far, in order
    exitCode,           \* the status the process has ended with ("none": it runs)
    signals,            \* signals and uncaught errors delivered so far
    ap                  \* history: what the last step of the application did

gwVars == <<variant, rs, clientId, clients, isAlive, wsIsAlive, sinceHeartbeat,
            sinceSweep, messageBuffer, enqueued, runs, flushedUpTo, tickMark,
            probed, missedLast, everMissed, staleAt, ev, broadcastInterval,
            shutdownCalled, shutdownPending, isRunning>>
sdVars == <<broadcastInterval, shutdownCalled, shutdownPending, isRunning>>
srVars == <<totalTrades, batchSize, hasOnStats, hasOnBatch, hasOnTrade,
            running, totalEmitted, timer, statsTimer, statsWindowCount, promise, stopCalled, sr,
            reported, tradesPerSecond, intervalMs>>
clVars == <<urlOk, hook, wsState, connected, reconnectAttempts, reconnectDelay,
            inboundBuffer, flushInterval, heartbeatInterval, reconnectTimers,
            delays, cl>>
enVars == <<engine, price, basePrice, scale, momentum, volatilityMultiplier,
            symbolVolatility, tradeId, generated, lastId, eg>>
dsVars == <<dsBatchSize, dsTradesPerSecond, dsIntervalMs, dsIsRunning, streamInterval, inFlight, tradesGenerated,
            tradesPublished, batchesPublished, errors, dsTicks, sv>>
lpVars == <<task>>
hkVars == <<orphans, renders>>
stVars == <<stTrades, symbolFilter, sideFilter, stAdded, stCleared, adds, sl>>
apVars == <<httpServer, isShuttingDown, appPc, steps, exitCode, signals, ap>>
otVars == <<stVars, apVars>>
restVars == <<enVars, dsVars, lpVars, hkVars, otVars>>
vars == <<gwVars, srVars, clVars, restVars>>

(***************************************************************************)
(* Helpers.                                                                *)
(***************************************************************************)
Max(a, b) == IF a >= b THEN a ELSE b
Min(a, b) == IF a <= b THEN a ELSE b

Range(f) == {f[i] : i \in DOMAIN f}

\* <<from+1, ..., from+k>>
Ids(from, k) == [i \in 1..k |-> from + i]

Msg(to, type, trades) == [to |-> to, type |-> type, trades |-> trades]

Ev(op, conn) ==
    [op |-> op, conn |-> conn, sent |-> <<>>, open |-> {}, failed |-> {},
     swept |-> {}, terminated |-> {}, silent |-> {}, silentTwice |-> {},
     lapsed |-> {}, enq |-> <<>>, threw |-> FALSE, closed |-> {},
     closeCode |-> 0, timersLeft |-> {}]

\* The sockets of the registry's entries.
Registered(cs) == {cs[i].ws : i \in DOMAIN cs}

\* The OPEN sockets among the registry's entries.
OpenIn(cs, r) == {s \in Registered(cs) : r[s] = "OPEN"}

(***************************************************************************)
(* The ws library and the Map, as the gateway uses them.                   *)
(***************************************************************************)
\* uuidv4(): a value no earlier call returned.
uuidv4Reused == IF Len(clients) = 0 THEN 1 ELSE clients[1].id
uuidv4 == 1 + Cardinality({s \in Sockets : rs[s] \notin {"NONE", "TCP", "ENDED"}})

\* Map.prototype.set: an existing key keeps its place.
MapSet(cs, e) ==
    IF \E i \in DOMAIN cs : cs[i].id = e.id
    THEN [i \in DOMAIN cs |-> IF cs[i].id = e.id THEN e ELSE cs[i]]
    ELSE Append(cs, e)

\* Map.prototype.delete
MapDelete(cs, id) == SelectSeq(cs, LAMBDA e : e.id # id)

\* ws.terminate(): the socket is destroyed at once; 'close' is emitted later.
terminate(r) == IF r = "CLOSED" THEN r ELSE "CLOSING"

(***************************************************************************)
(* Gateway, part_002: the instance the backend wires up.                   *)
(***************************************************************************)
\* The for...of over this.clients in broadcastBatch: each OPEN entry is sent
\* the message inside its own try/catch; `fail` are the sockets whose
\* ws.send throws.
RECURSIVE SendLoop(_, _, _, _)
SendLoop(cs, r, fail, trades) ==
    IF cs = <<>> THEN <<>>
    ELSE LET e == Head(cs)
             rest == SendLoop(Tail(cs), r, fail, trades)
         IN IF r[e.ws] = "OPEN" /\ e.ws \notin fail
            THEN <<Msg(e.ws, "batch", trades)>> \o rest
            ELSE rest

\* The same loop without the per-connection try/catch: the first failing
\* send ends it.
RECURSIVE SendLoopNoCatch(_, _, _, _)
SendLoopNoCatch(cs, r, fail, trades) ==
    IF cs = <<>> THEN <<>>
    ELSE LET e == Head(cs)
         IN IF r[e.ws] = "OPEN" /\ e.ws \in fail THEN <<>>
            ELSE IF r[e.ws] = "OPEN"
                 THEN <<Msg(e.ws, "batch", trades)>>
                          \o SendLoopNoCatch(Tail(cs), r, fail, trades)
                 ELSE SendLoopNoCatch(Tail(cs), r, fail, trades)

\* What a flush did: the buffer it leaves, the messages it sent, the OPEN
\* registered sockets it found, the sockets whose send failed, the highest
\* trade it took out of the buffer (0: none), and whether it threw.
FlushResult(buf, sent, open, failed, flushed, threw) ==
    [buffer |-> buf, sent |-> sent, open |-> open, failed |-> failed,
     flushed |-> flushed, threw |-> threw]

NoFlush(buf) == FlushResult(buf, <<>>, {}, {}, 0, FALSE)

broadcastBatchNoCatch(buf, cs, r, fail) ==
    IF Len(buf) = 0 \/ Len(cs) = 0 THEN NoFlush(buf)
    ELSE IF OpenIn(cs, r) \cap fail # {}
         THEN FlushResult(buf, SendLoopNoCatch(cs, r, fail, buf), OpenIn(cs, r),
                          OpenIn(cs, r) \cap fail, buf[Len(buf)], TRUE)
         ELSE FlushResult(<<>>, SendLoop(cs, r, fail, buf), OpenIn(cs, r),
                          {}, buf[Len(buf)], FALSE)

broadcastBatchKeepsBuffer(buf, cs, r, fail) ==
    IF Len(buf) = 0 \/ Len(cs) = 0 THEN NoFlush(buf)
    ELSE FlushResult(buf, SendLoop(cs, r, fail, buf), OpenIn(cs, r),
                     OpenIn(cs, r) \cap fail, buf[Len(buf)], FALSE)

broadcastBatch(buf, cs, r, fail) ==
    IF Len(buf) = 0 \/ Len(cs) = 0 THEN NoFlush(buf)
    ELSE FlushResult(<<>>, SendLoop(cs, r, fail, buf), OpenIn(cs, r),
                     OpenIn(cs, r) \cap fail, buf[Len(buf)], FALSE)

\* One call of addTradeToBatch(trade).
addTradeToBatch(buf, t, cs, r, fail) ==
    LET pushed == Append(buf, t)
    IN IF Len(pushed) >= messageBufferSize
       THEN broadcastBatch(pushed, cs, r, fail)
       ELSE NoFlush(pushed)

\* Two flushes one after the other.
ThenFlush(a, b) ==
    FlushResult(b.buffer, a.sent \o b.sent, a.open \cup b.open,
                a.failed \cup b.failed, Max(a.flushed, b.flushed),
                a.threw \/ b.threw)

\* addTradeToBatch called for each trade of ts in turn (the run is split in
\* two to keep the evaluation shallow).
RECURSIVE AddTrades(_, _, _, _, _)
AddRest(a, ts, cs, r, fail) ==
    IF a.threw THEN a ELSE ThenFlush(a, AddTrades(a.buffer, ts, cs, r, fail))

AddTrades(buf, ts, cs, r, fail) ==
    IF Len(ts) = 0 THEN NoFlush(buf)
    ELSE IF Len(ts) = 1 THEN addTradeToBatch(buf, ts[1], cs, r, fail)
    ELSE LET h == Len(ts) \div 2
         IN AddRest(AddTrades(buf, SubSeq(ts, 1, h), cs, r, fail),
                    SubSeq(ts, h + 1, Len(ts)), cs, r, fail)

\* sendToClient(clientId, data): the registry is looked up by id.
sendToClientNoLookup(cs, r, id, type) ==
    <<Msg(CHOOSE s \in Sockets : clientId[s] = id, type, <<>>)>>

sendToClient(cs, r, id, type) ==
    IF \E i \in DOMAIN cs : cs[i].id = id
    THEN LET e == cs[CHOOSE i \in DOMAIN cs : cs[i].id = id]
         IN IF r[e.ws] = "OPEN" THEN <<Msg(e.ws, type, <<>>)>> ELSE <<>>
    ELSE <<>>

\* performHeartbeat(): what the sweep leaves.
\*   clients: the entries whose clientInfo.isAlive was set
\*   isAlive: every surviving entry marked not alive
\*   rs: the others terminated
\*   terminated: the sockets terminated while OPEN
\*   pinged: the sockets a probe went out to (ws.ping() on a socket that is
\*           not OPEN sends nothing)
performHeartbeat(cs, alive, r) ==
    [clients |-> SelectSeq(cs, LAMBDA e : alive[e.ws]),
     isAlive |-> [s \in Sockets |-> IF s \in Registered(cs) THEN FALSE ELSE alive[s]],
     rs |-> [s \in Sockets |->
                IF s \in Registered(cs) /\ ~alive[s] THEN terminate(r[s]) ELSE r[s]],
     terminated |-> {s \in Registered(cs) : ~alive[s] /\ r[s] = "OPEN"},
     pinged |-> {s \in Registered(cs) : alive[s] /\ r[s] = "OPEN"}]

\* The histories of a socket end when it leaves the registry.
Forget(f, gone, v) == [s \in Sockets |-> IF s \in gone THEN v ELSE f[s]]

\* Trades are numbered from the last flush tick that left the buffer empty.
Renumber(buf, x) == IF Len(buf) = 0 THEN 0 ELSE x

\* The history of probes, as a sweep over the entries `swept` changes it:
\* `stay` are the entries it leaves registered, `pinged` those it probed.
SweepMissedLast(swept, stay) ==
    [s \in Sockets |-> IF s \in swept THEN s \in stay /\ probed[s] ELSE missedLast[s]]
SweepEverMissed(swept, stay) ==
    [s \in Sockets |->
        IF s \in swept THEN s \in stay /\ (everMissed[s] \/ probed[s])
        ELSE everMissed[s]]
SweepProbed(swept, stay, pinged) ==
    [s \in Sockets |-> IF s \in swept THEN s \in stay /\ s \in pinged ELSE probed[s]]

\* What a sweep over the entries `swept` found of their probes:
\*   silent: the previous sweep's probe is unanswered
\*   silentTwice: so was the probe of the sweep before
\*   lapsed: this or an earlier sweep found a probe unanswered
Silent(swept) == {s \in swept : probed[s]}
SilentTwice(swept) == {s \in swept : probed[s] /\ missedLast[s]}
Lapsed(swept) == {s \in swept : probed[s] \/ everMissed[s]}

\* The next socket to connect.
NextSocket(s) == rs[s] = "NONE" /\ \A t \in Sockets : t < s => rs[t] # "NONE"

\* A peer has the server's attention for an upgrade request: it connects and
\* sends the request while the server listens, or sends it on a connection
\* the server accepted earlier.
Upgrades(s) == rs[s] = "TCP" \/ (~shutdownCalled /\ NextSocket(s))

\* wss 'connection' -> handleClientConnection(ws).  shutdown() closes
\* this.server and never this.wss, so the upgrade request of a connection
\* accepted before shutdown() is still handled after it.
handleClientConnection(s) ==
    /\ variant = "instance"
    /\ Upgrades(s)
    /\ LET id == uuidv4
       IN /\ clientId' = [clientId EXCEPT ![s] = id]
          /\ clients' = MapSet(clients, [id |-> id, ws |-> s])
    /\ rs' = [rs EXCEPT ![s] = "OPEN"]
    /\ isAlive' = [isAlive EXCEPT ![s] = TRUE]
    /\ wsIsAlive' = [wsIsAlive EXCEPT ![s] = TRUE]
    /\ staleAt' = [staleAt EXCEPT ![s] = tickMark]
    /\ ev' = [Ev("connection", s) EXCEPT !.sent = <<Msg(s, "connection", <<>>)>>]
    /\ UNCHANGED <<variant, sinceHeartbeat, sinceSweep, messageBuffer, enqueued,
                   runs, flushedUpTo, tickMark, probed, missedLast, everMissed>>
    /\ UNCHANGED <<srVars, clVars, sdVars, restVars>>

\* ws 'message' -> JSON.parse -> handleClientMessage(clientId, message)
handleClientMessage(s, type) ==
    /\ variant = "instance"
    /\ rs[s] \in {"OPEN", "CLOSING"}
    /\ ev' = IF type = "ping"
             THEN [Ev("ping", s) EXCEPT
                     !.sent = sendToClient(clients, rs, clientId[s], "pong")]
             ELSE Ev("other", 0)
    /\ probed' = [probed EXCEPT ![s] = IF type = "ping" THEN FALSE ELSE @]
    /\ UNCHANGED <<variant, rs, clientId, clients, isAlive, wsIsAlive,
                   sinceHeartbeat, sinceSweep, messageBuffer, enqueued, runs,
                   flushedUpTo, tickMark, missedLast, everMissed, staleAt>>
    /\ UNCHANGED <<srVars, clVars, sdVars, restVars>>

\* ws 'pong': the peer's answer to a probe, or a pong it sends unasked; the
\* handler has no condition, and frames still arrive on a CLOSING socket.
onPong(s) ==
    /\ variant = "instance"
    /\ rs[s] \in {"OPEN", "CLOSING"}
    /\ wsIsAlive' = [wsIsAlive EXCEPT ![s] = TRUE]
    /\ probed' = [probed EXCEPT ![s] = FALSE]
    /\ ev' = Ev("other", 0)
    /\ UNCHANGED <<variant, rs, clientId, clients, isAlive, sinceHeartbeat,
                   sinceSweep, messageBuffer, enqueued, runs, flushedUpTo,
                   tickMark, missedLast, everMissed, staleAt>>
    /\ UNCHANGED <<srVars, clVars, sdVars, restVars>>

\* ws 'close': the socket reaches CLOSED and its handler runs.
onClose(s) ==
    /\ variant = "instance"
    /\ rs[s] = "CLOSING"
    /\ rs' = [rs EXCEPT ![s] = "CLOSED"]
    /\ clients' = MapDelete(clients, clientId[s])
    /\ probed' = Forget(probed, {s}, FALSE)
    /\ missedLast' = Forget(missedLast, {s}, FALSE)
    /\ everMissed' = Forget(everMissed, {s}, FALSE)
    /\ staleAt' = Forget(staleAt, {s}, 0)
    /\ ev' = Ev("other", 0)
    /\ UNCHANGED <<variant, clientId, isAlive, wsIsAlive, sinceHeartbeat,
                   sinceSweep, messageBuffer, enqueued, runs, flushedUpTo,
                   tickMark>>
    /\ UNCHANGED <<srVars, clVars, sdVars, restVars>>

\* The broker subscription hands over k trades, one addTradeToBatch each.
AddTradeToBatch(k) ==
    /\ variant = "instance"
    /\ runs < MaxRuns
    /\ \E fail \in SUBSET OpenIn(clients, rs) :
         \E res \in {AddTrades(messageBuffer, Ids(enqueued, k), clients, rs, fail)} :
            /\ messageBuffer' = res.buffer
            /\ flushedUpTo' = Max(flushedUpTo, res.flushed)
            /\ ev' = [Ev("addTradeToBatch", 0) EXCEPT
                        !.sent = res.sent, !.open = res.open,
                        !.failed = res.failed, !.enq = Ids(enqueued, k),
                        !.threw = res.threw]
    /\ enqueued' = enqueued + k
    /\ runs' = runs + 1
    /\ UNCHANGED <<variant, rs, clientId, clients, isAlive, wsIsAlive,
                   sinceHeartbeat, sinceSweep, tickMark, probed, missedLast,
                   everMissed, staleAt>>
    /\ UNCHANGED <<srVars, clVars, sdVars, restVars>>

\* The setInterval callback of startBatchBroadcast, every 100 ms: a flush when
\* the buffer holds something, then performHeartbeat().
startBatchBroadcast ==
    /\ variant = "instance"
    /\ broadcastInterval
    /\ \E fail \in SUBSET OpenIn(clients, rs) :
         LET fl == IF Len(messageBuffer) > 0
                   THEN broadcastBatch(messageBuffer, clients, rs, fail)
                   ELSE NoFlush(messageBuffer)
             hb == performHeartbeat(clients, isAlive, rs)
             swept == IF fl.threw THEN {} ELSE Registered(clients)
             stay == Registered(hb.clients)
         IN /\ messageBuffer' = fl.buffer
            /\ flushedUpTo' = Renumber(fl.buffer, Max(flushedUpTo, fl.flushed))
            /\ enqueued' = Renumber(fl.buffer, enqueued)
            /\ runs' = Renumber(fl.buffer, runs)
            /\ tickMark' = Renumber(fl.buffer, enqueued)
            /\ clients' = IF fl.threw THEN clients ELSE hb.clients
            /\ isAlive' = IF fl.threw THEN isAlive ELSE hb.isAlive
            /\ rs' = IF fl.threw THEN rs ELSE hb.rs
            /\ missedLast' = SweepMissedLast(swept, stay)
            /\ everMissed' = SweepEverMissed(swept, stay)
            /\ probed' = SweepProbed(swept, stay, hb.pinged)
            /\ staleAt' = [s \in Sockets |->
                                IF s \in swept \ stay THEN 0
                                ELSE Renumber(fl.buffer, staleAt[s])]
            /\ ev' = [Ev("flushTick", 0) EXCEPT
                        !.sent = fl.sent, !.open = fl.open, !.failed = fl.failed,
                        !.threw = fl.threw, !.swept = swept,
                        !.terminated = IF fl.threw THEN {} ELSE hb.terminated,
                        !.silent = Silent(swept),
                        !.silentTwice = SilentTwice(swept),
                        !.lapsed = Lapsed(swept)]
    /\ UNCHANGED <<variant, clientId, wsIsAlive, sinceHeartbeat, sinceSweep>>
    /\ UNCHANGED <<srVars, clVars, sdVars, restVars>>

(***************************************************************************)
(* Gateway, part_001: the class with static entry points.                  *)
(***************************************************************************)
\* broadcast(message): nothing with an empty registry, else one send per OPEN
\* entry, each with its own error callback.
broadcast(cs, r, fail, trades) ==
    IF Len(cs) = 0 THEN <<>> ELSE SendLoop(cs, r, fail, trades)

\* timeSinceLastHeartbeat > 90000
HeartbeatExpired(age) == age > HeartbeatTimeoutMs

\* The heartbeat interval's forEach: an expired entry is terminated and
\* deleted, any other entry is probed when its socket is OPEN.
HeartbeatSweep(cs, age, r) ==
    [clients |-> SelectSeq(cs, LAMBDA e : ~HeartbeatExpired(age[e.ws])),
     rs |-> [s \in Sockets |->
                IF s \in Registered(cs) /\ HeartbeatExpired(age[s])
                THEN terminate(r[s]) ELSE r[s]],
     terminated |-> {s \in Registered(cs) :
                        HeartbeatExpired(age[s]) /\ r[s] = "OPEN"},
     pinged |-> {s \in Registered(cs) :
                    ~HeartbeatExpired(age[s]) /\ r[s] = "OPEN"}]

\* wss 'connection'.  shutdown() closes this.wss, which handles no upgrade
\* request afterwards.
StaticConnection(s) ==
    /\ variant = "static"
    /\ ~shutdownCalled
    /\ Upgrades(s)
    /\ LET id == uuidv4
       IN /\ clientId' = [clientId EXCEPT ![s] = id]
          /\ clients' = MapSet(clients, [id |-> id, ws |-> s])
    /\ rs' = [rs EXCEPT ![s] = "OPEN"]
    /\ isAlive' = [isAlive EXCEPT ![s] = TRUE]
    /\ sinceHeartbeat' = [sinceHeartbeat EXCEPT ![s] = 0]
    /\ staleAt' = [staleAt EXCEPT ![s] = tickMark]
    /\ ev' = Ev("connection", s)
    /\ UNCHANGED <<variant, wsIsAlive, sinceSweep, messageBuffer, enqueued, runs,
                   flushedUpTo, tickMark, probed, missedLast, everMissed>>
    /\ UNCHANGED <<srVars, clVars, sdVars, restVars>>

\* ws 'message': a ping is answered on the socket itself and refreshes the
\* client; anything else, and what does not parse, is dropped.  (ws.send on a
\* socket that is not OPEN transmits nothing.)
StaticMessage(s, type) ==
    /\ variant = "static"
    /\ rs[s] \in {"OPEN", "CLOSING"}
    /\ IF type = "ping"
       THEN /\ ev' = [Ev("ping", s) EXCEPT
                        !.sent = IF rs[s] = "OPEN"
                                 THEN <<Msg(s, "pong", <<>>)>> ELSE <<>>]
            /\ isAlive' = [isAlive EXCEPT ![s] = TRUE]
            /\ sinceHeartbeat' = [sinceHeartbeat EXCEPT ![s] = 0]
            /\ probed' = [probed EXCEPT ![s] = FALSE]
       ELSE /\ ev' = Ev("other", 0)
            /\ UNCHANGED <<isAlive, sinceHeartbeat, probed>>
    /\ UNCHANGED <<variant, rs, clientId, clients, wsIsAlive, sinceSweep,
                   messageBuffer, enqueued, runs, flushedUpTo, tickMark,
                   missedLast, everMissed, staleAt>>
    /\ UNCHANGED <<srVars, clVars, sdVars, restVars>>

\* ws 'pong': the peer's answer to a probe, or a pong it sends unasked; the
\* handler has no condition, and frames still arrive on a CLOSING socket.
StaticPong(s) ==
    /\ variant = "static"
    /\ rs[s] \in {"OPEN", "CLOSING"}
    /\ isAlive' = [isAlive EXCEPT ![s] = TRUE]
    /\ sinceHeartbeat' = [sinceHeartbeat EXCEPT ![s] = 0]
    /\ probed' = [probed EXCEPT ![s] = FALSE]
    /\ ev' = Ev("other", 0)
    /\ UNCHANGED <<variant, rs, clientId, clients, wsIsAlive, sinceSweep,
                   messageBuffer, enqueued, runs, flushedUpTo, tickMark,
                   missedLast, everMissed, staleAt>>
    /\ UNCHANGED <<srVars, clVars, sdVars, restVars>>

\* ws 'close'
StaticClose(s) ==
    /\ variant = "static"
    /\ rs[s] = "CLOSING"
    /\ rs' = [rs EXCEPT ![s] = "CLOSED"]
    /\ clients' = MapDelete(clients, clientId[s])
    /\ probed' = Forget(probed, {s}, FALSE)
    /\ missedLast' = Forget(missedLast, {s}, FALSE)
    /\ everMissed' = Forget(everMissed, {s}, FALSE)
    /\ staleAt' = Forget(staleAt, {s}, 0)
    /\ ev' = Ev("other", 0)
    /\ UNCHANGED <<variant, clientId, isAlive, wsIsAlive, sinceHeartbeat,
                   sinceSweep, messageBuffer, enqueued, runs, flushedUpTo,
                   tickMark>>
    /\ UNCHANGED <<srVars, clVars, sdVars, restVars>>

\* static addTradeToBatch(trade), k times: a push and nothing else.
StaticAddTradeToBatch(k) ==
    /\ variant = "static"
    /\ runs < MaxRuns
    /\ messageBuffer' = messageBuffer \o Ids(enqueued, k)
    /\ enqueued' = enqueued + k
    /\ runs' = runs + 1
    /\ ev' = [Ev("addTradeToBatch", 0) EXCEPT !.enq = Ids(enqueued, k)]
    /\ UNCHANGED <<variant, rs, clientId, clients, isAlive, wsIsAlive,
                   sinceHeartbeat, sinceSweep, flushedUpTo, tickMark, probed,
                   missedLast, everMissed, staleAt>>
    /\ UNCHANGED <<srVars, clVars, sdVars, restVars>>

\* The 100 ms interval of start(): broadcast the buffer, then replace it.
StaticFlushTick ==
    /\ variant = "static"
    /\ broadcastInterval
    /\ \E fail \in SUBSET OpenIn(clients, rs) :
         IF Len(messageBuffer) > 0
         THEN /\ ev' = [Ev("flushTick", 0) EXCEPT
                          !.sent = broadcast(clients, rs, fail, messageBuffer),
                          !.open = OpenIn(clients, rs),
                          !.failed = OpenIn(clients, rs) \cap fail]
              /\ messageBuffer' = <<>>
         ELSE /\ ev' = Ev("flushTick", 0)
              /\ UNCHANGED messageBuffer
    /\ flushedUpTo' = Renumber(messageBuffer', flushedUpTo)
    /\ enqueued' = Renumber(messageBuffer', enqueued)
    /\ runs' = Renumber(messageBuffer', runs)
    /\ tickMark' = Renumber(messageBuffer', enqueued)
    /\ staleAt' = [s \in Sockets |-> Renumber(messageBuffer', staleAt[s])]
    /\ UNCHANGED <<variant, rs, clientId, clients, isAlive, wsIsAlive,
                   sinceHeartbeat, sinceSweep, probed, missedLast, everMissed>>
    /\ UNCHANGED <<srVars, clVars, sdVars, restVars>>

\* The 60 s interval of setupServer().
StaticHeartbeat ==
    /\ variant = "static"
    /\ sinceSweep = HeartbeatIntervalMs
    /\ LET hb == HeartbeatSweep(clients, sinceHeartbeat, rs)
           swept == Registered(clients)
           stay == Registered(hb.clients)
       IN /\ clients' = hb.clients
          /\ rs' = hb.rs
          /\ missedLast' = SweepMissedLast(swept, stay)
          /\ everMissed' = SweepEverMissed(swept, stay)
          /\ probed' = SweepProbed(swept, stay, hb.pinged)
          /\ staleAt' = Forget(staleAt, swept \ stay, 0)
          /\ sinceHeartbeat' = Forget(sinceHeartbeat, swept \ stay, 0)
          /\ ev' = [Ev("heartbeat", 0) EXCEPT
                      !.swept = swept, !.terminated = hb.terminated,
                      !.silent = Silent(swept),
                      !.silentTwice = SilentTwice(swept),
                      !.lapsed = Lapsed(swept)]
    /\ sinceSweep' = 0
    /\ UNCHANGED <<variant, clientId, isAlive, wsIsAlive, messageBuffer,
                   enqueued, runs, flushedUpTo, tickMark>>
    /\ UNCHANGED <<srVars, clVars, sdVars, restVars>>

\* Time passes, for the registered clients' heartbeats and for the sweep
\* timer; a sweep that is due fires first.
Advance ==
    /\ variant = "static"
    /\ sinceSweep < HeartbeatIntervalMs
    /\ sinceSweep' = sinceSweep + TimeStep
    /\ sinceHeartbeat' =
         [s \in Sockets |->
            IF s \in Registered(clients)
            THEN Min(sinceHeartbeat[s] + TimeStep, AgeCap)
            ELSE sinceHeartbeat[s]]
    /\ ev' = Ev("other", 0)
    /\ UNCHANGED <<variant, rs, clientId, clients, isAlive, wsIsAlive,
                   messageBuffer, enqueued, runs, flushedUpTo, tickMark, probed,
                   missedLast, everMissed, staleAt>>
    /\ UNCHANGED <<srVars, clVars, sdVars, restVars>>

(***************************************************************************)
(* The transport: a peer's TCP connection is accepted and may end before   *)
(* any upgrade request; a socket leaves OPEN (the peer's close frame, an   *)
(* error).                                                                 *)
(***************************************************************************)
\* The listening server accepts a connection; the peer has sent nothing yet.
TcpConnection(s) ==
    /\ ~shutdownCalled
    /\ NextSocket(s)
    /\ rs' = [rs EXCEPT ![s] = "TCP"]
    /\ ev' = Ev("other", 0)
    /\ UNCHANGED <<variant, clientId, clients, isAlive, wsIsAlive,
                   sinceHeartbeat, sinceSweep, messageBuffer, enqueued, runs,
                   flushedUpTo, tickMark, probed, missedLast, everMissed,
                   staleAt>>
    /\ UNCHANGED <<srVars, clVars, sdVars, restVars>>

\* A connection that never became a WebSocket ends: the peer gives up, or
\* its upgrade request is refused (part_001 after shutdown(): 426, nothing
\* is registered).
TcpEnd(s) ==
    /\ rs[s] = "TCP"
    /\ rs' = [rs EXCEPT ![s] = "ENDED"]
    /\ ev' = Ev("other", 0)
    /\ UNCHANGED <<variant, clientId, clients, isAlive, wsIsAlive,
                   sinceHeartbeat, sinceSweep, messageBuffer, enqueued, runs,
                   flushedUpTo, tickMark, probed, missedLast, everMissed,
                   staleAt>>
    /\ UNCHANGED <<srVars, clVars, sdVars, restVars>>

BeginClose(s) ==
    /\ rs[s] = "OPEN"
    /\ rs' = [rs EXCEPT ![s] = "CLOSING"]
    /\ probed' = Forget(probed, {s}, FALSE)
    /\ missedLast' = Forget(missedLast, {s}, FALSE)
    /\ everMissed' = Forget(everMissed, {s}, FALSE)
    /\ staleAt' = Forget(staleAt, {s}, 0)
    /\ ev' = Ev("other", 0)
    /\ UNCHANGED <<variant, clientId, clients, isAlive, wsIsAlive,
                   sinceHeartbeat, sinceSweep, messageBuffer, enqueued, runs,
                   flushedUpTo, tickMark>>
    /\ UNCHANGED <<srVars, clVars, sdVars, restVars>>

(***************************************************************************)
(* shutdown(): the flush interval is cleared, every registered socket is   *)
(* closed (ws.close(): an OPEN socket is CLOSING at once) and the server   *)
(* stops accepting connections.                                            *)
(***************************************************************************)
\* clearInterval(this.broadcastInterval)
ClearBroadcastInterval(b) == FALSE

CloseAll(cs, r) ==
    [s \in Sockets |-> IF s \in OpenIn(cs, r) THEN "CLOSING" ELSE r[s]]

\* The status code the peer gets with the close frame: part_002 calls
\* close(1000, ...), part_001 close() with no code, which the peer reads
\* as 1005 (no status received).
CloseCode == IF variant = "instance" THEN 1000 ELSE 1005

\* The periodic operations still scheduled once shutdown() has cleared
\* this.broadcastInterval.  In part_002 that one interval flushes and
\* sweeps; in part_001 it only flushes, and the sweep's interval has no
\* stored handle.
TimersLeft(b) ==
    IF variant = "instance"
    THEN IF b THEN {"flush", "sweep"} ELSE {}
    ELSE (IF b THEN {"flush"} ELSE {}) \cup {"sweep"}

\* The server's close callback runs when every connection has ended: the
\* server emits 'close' on the tick after its last connection is destroyed,
\* which is before the 'close' event of that socket, and of any other socket
\* still CLOSING, reaches the gateway's handler.  A connection that has sent
\* no request yet keeps the server from closing as an open socket does.
AllEnded(r) == \A s \in Sockets : r[s] \notin {"OPEN", "TCP"}

ShutdownCall ==
    /\ shutdownPending < MaxShutdowns
    /\ shutdownPending' = shutdownPending + 1
    /\ broadcastInterval' = ClearBroadcastInterval(broadcastInterval)
    /\ shutdownCalled' = TRUE
    /\ rs' = CloseAll(clients, rs)
    /\ probed' = Forget(probed, OpenIn(clients, rs), FALSE)
    /\ missedLast' = Forget(missedLast, OpenIn(clients, rs), FALSE)
    /\ everMissed' = Forget(everMissed, OpenIn(clients, rs), FALSE)
    /\ staleAt' = Forget(staleAt, OpenIn(clients, rs), 0)
    /\ ev' = [Ev("shutdown", 0) EXCEPT
                !.closed = Registered(clients),
                !.closeCode = CloseCode,
                !.timersLeft = TimersLeft(broadcastInterval')]
    /\ UNCHANGED <<variant, clientId, clients, isAlive, wsIsAlive,
                   sinceHeartbeat, sinceSweep, messageBuffer, enqueued, runs,
                   flushedUpTo, tickMark>>

ShutdownBody ==
    /\ ShutdownCall
    /\ UNCHANGED <<srVars, clVars, restVars>>

\* part_002: shutdown(); isRunning is cleared in the server's close callback.
shutdown ==
    /\ variant = "instance"
    /\ ShutdownBody
    /\ UNCHANGED isRunning

\* part_001: WebSocketGateway.shutdown(); the heartbeat interval has no
\* stored handle and is left running.
StaticShutdown ==
    /\ variant = "static"
    /\ isRunning' = FALSE
    /\ ShutdownBody

\* The callback of server.close() / wss.close(): every pending shutdown()
\* resolves.
ShutdownComplete ==
    /\ shutdownPending > 0
    /\ AllEnded(rs)
    /\ shutdownPending' = 0
    /\ isRunning' = FALSE
    /\ ev' = Ev("shutdownDone", 0)
    /\ UNCHANGED <<variant, rs, clientId, clients, isAlive, wsIsAlive,
                   sinceHeartbeat, sinceSweep, messageBuffer, enqueued, runs,
                   flushedUpTo, tickMark, probed, missedLast, everMissed,
                   staleAt, broadcastInterval, shutdownCalled>>
    /\ UNCHANGED <<srVars, clVars, restVars>>

(***************************************************************************)
(* StreamRunner (mock-data-generator).                                     *)
(***************************************************************************)
\* generateBatch(count): one trade per loop round; the trades' contents are
\* left out.
generateBatchOneMore(count) == [i \in 1..(count + 1) |-> i]
generateBatch(count) == [i \in 1..count |-> i]

\* What a step of the runner did: the batch it generated, the sinks it
\* invoked in order, and the position in that order of the invocation in
\* which stop() was called and returned (0: none); for stop() called from
\* outside, whether it followed another stop() with no start() in between.
Sr(op, batch, calls, stopAt) ==
    [op |-> op, batch |-> batch, calls |-> calls, stopAt |-> stopAt,
     again |-> FALSE]

\* The size of the batch a tick asks the generator for.
BatchCountUncapped(size, remaining) == size
BatchCount(size, remaining) == Min(size, remaining)

\* The sinks a tick invokes for its batch: onBatch once, then onTrade once
\* per trade.
SinkCalls(batch) ==
    (IF hasOnBatch THEN <<"onBatch">> ELSE <<>>)
        \o (IF hasOnTrade THEN [i \in 1..Len(batch) |-> "onTrade"] ELSE <<>>)

\* stop(): the flag and the two interval handles after the call.
stopKeepsStatsTimer(h) ==
    [running |-> FALSE, timer |-> FALSE, statsTimer |-> h.statsTimer]
stop(h) == [running |-> FALSE, timer |-> FALSE, statsTimer |-> FALSE]

Handles == [running |-> running, timer |-> timer, statsTimer |-> statsTimer]

\* start() begins with `if (this._running) return` (StreamRunner),
\* `if (this.isRunning) return` (DataStreamingService).
AlreadyRunningIgnored(isRunning_) == FALSE
AlreadyRunning(isRunning_) == isRunning_

(***************************************************************************)
(* IEEE 754 double arithmetic, as the JavaScript engine computes the       *)
(* prices of part_006 and the tick interval of StreamRunner.               *)
(* A natural number is a sequence of limbs below Limb, lowest first, with  *)
(* no zero limb at the top; a double is sign, mantissa and exponent:       *)
(* (-1)^neg * m * 2^e with m = 0 or 2^52 <= m < 2^53.  The values that     *)
(* occur are far from overflow and from the subnormal range.               *)
(***************************************************************************)
Limb == 2 ^ 15

RECURSIVE BnTrim(_)
BnTrim(a) ==
    IF Len(a) > 0 /\ a[Len(a)] = 0 THEN BnTrim(SubSeq(a, 1, Len(a) - 1))
    ELSE a

RECURSIVE BnOf(_)
BnOf(n) == IF n = 0 THEN <<>> ELSE <<n % Limb>> \o BnOf(n \div Limb)

RECURSIVE BnInt(_)
BnInt(a) == IF Len(a) = 0 THEN 0 ELSE a[1] + Limb * BnInt(Tail(a))

BnLimb(a, i) == IF i <= Len(a) THEN a[i] ELSE 0

RECURSIVE BnAddFrom(_, _, _, _)
BnAddFrom(a, b, i, carry) ==
    IF i > Len(a) /\ i > Len(b)
    THEN (IF carry = 0 THEN <<>> ELSE <<carry>>)
    ELSE LET t == BnLimb(a, i) + BnLimb(b, i) + carry
         IN <<t % Limb>> \o BnAddFrom(a, b, i + 1, t \div Limb)
BnAdd(a, b) == BnAddFrom(a, b, 1, 0)

\* a - b for a >= b
RECURSIVE BnSubFrom(_, _, _, _)
BnSubFrom(a, b, i, borrow) ==
    IF i > Len(a) THEN <<>>
    ELSE LET t == a[i] - BnLimb(b, i) - borrow
         IN <<t % Limb>> \o BnSubFrom(a, b, i + 1, IF t < 0 THEN 1 ELSE 0)
BnSub(a, b) == BnTrim(BnSubFrom(a, b, 1, 0))

\* -1, 0, 1 as a < b, a = b, a > b
RECURSIVE BnCmpAt(_, _, _)
BnCmpAt(a, b, i) ==
    IF i = 0 THEN 0
    ELSE IF a[i] > b[i] THEN 1
    ELSE IF a[i] < b[i] THEN -1
    ELSE BnCmpAt(a, b, i - 1)
BnCmp(a, b) ==
    IF Len(a) > Len(b) THEN 1
    ELSE IF Len(a) < Len(b) THEN -1
    ELSE BnCmpAt(a, b, Len(a))

\* a * k for 0 <= k < Limb
RECURSIVE BnMulSmallFrom(_, _, _, _)
BnMulSmallFrom(a, k, i, carry) ==
    IF i > Len(a) THEN (IF carry = 0 THEN <<>> ELSE <<carry>>)
    ELSE LET t == a[i] * k + carry
         IN <<t % Limb>> \o BnMulSmallFrom(a, k, i + 1, t \div Limb)
BnMulSmall(a, k) == BnTrim(BnMulSmallFrom(a, k, 1, 0))

RECURSIVE BnMul(_, _)
BnMul(a, b) ==
    IF Len(a) = 0 \/ Len(b) = 0 THEN <<>>
    ELSE BnTrim(BnAdd(BnMulSmall(a, b[1]), <<0>> \o BnMul(a, Tail(b))))

\* Quotient and remainder of a by k, 0 < k < Limb; i runs from the top limb.
RECURSIVE BnDivSmallAt(_, _, _, _)
BnDivSmallAt(a, k, i, rem) ==
    IF i = 0 THEN [q |-> <<>>, r |-> rem]
    ELSE LET t == rem * Limb + a[i]
             rest == BnDivSmallAt(a, k, i - 1, t % k)
         IN [q |-> Append(rest.q, t \div k), r |-> rest.r]
BnDivSmall(a, k) ==
    LET d == BnDivSmallAt(a, k, Len(a), 0) IN [q |-> BnTrim(d.q), r |-> d.r]

\* a * 2^n and floor(a / 2^n)
BnShl(a, n) ==
    IF Len(a) = 0 THEN <<>>
    ELSE [i \in 1..(n \div 15) |-> 0] \o BnMulSmall(a, 2 ^ (n % 15))
BnShr(a, n) ==
    IF n \div 15 >= Len(a) THEN <<>>
    ELSE BnDivSmall(SubSeq(a, n \div 15 + 1, Len(a)),
                    2 ^ (n % 15)).q

RECURSIVE BitLen(_)
BitLen(n) == IF n = 0 THEN 0 ELSE 1 + BitLen(n \div 2)
BnBitLen(a) ==
    IF Len(a) = 0 THEN 0 ELSE 15 * (Len(a) - 1) + BitLen(a[Len(a)])
BnBit(a, i) == (BnLimb(a, i \div 15 + 1) \div 2 ^ (i % 15)) % 2
BnOdd(a) == Len(a) > 0 /\ a[1] % 2 = 1

\* Quotient and remainder of a by d > 0, bit by bit from the top: one step
\* takes bit i of a into the remainder; the bits hi down to lo are taken in
\* two halves, the upper half evaluated before the lower one begins.
BnDivModStep(a, d, i, st) ==
    LET r2 == BnAdd(BnMulSmall(st.r, 2), BnOf(BnBit(a, i)))
        q2 == BnMulSmall(st.q, 2)
    IN IF BnCmp(r2, d) >= 0
       THEN [q |-> BnAdd(q2, <<1>>), r |-> BnSub(r2, d)]
       ELSE [q |-> q2, r |-> r2]
RECURSIVE BnDivModBits(_, _, _, _, _)
BnDivModBits(a, d, hi, lo, st) ==
    IF hi < lo THEN st
    ELSE IF hi = lo THEN BnDivModStep(a, d, hi, st)
    ELSE LET mid == (hi + lo + 1) \div 2
             upper == BnDivModBits(a, d, hi, mid, st)
         IN IF Len(upper.r) >= 0 THEN BnDivModBits(a, d, mid - 1, lo, upper)
            ELSE upper
BnDivMod(a, d) ==
    BnDivModBits(a, d, BnBitLen(a) - 1, 0, [q |-> <<>>, r |-> <<>>])

Double(neg, m, e) == [neg |-> neg, m |-> m, e |-> e]
FZero == Double(FALSE, <<>>, 0)
IsZero(x) == Len(x.m) = 0

\* The double nearest to (-1)^neg * n * 2^e, halves to the even mantissa.
FRound(neg, n, e) ==
    LET len == BnBitLen(n)
        d == len - 53
    IN IF len = 0 THEN FZero
       ELSE IF d <= 0 THEN Double(neg, BnShl(n, -d), e + d)
       ELSE LET q == BnShr(n, d)
                rem == BnSub(n, BnShl(q, d))
                c == BnCmp(rem, BnShl(<<1>>, d - 1))
                up == c > 0 \/ (c = 0 /\ BnOdd(q))
                q2 == IF up THEN BnAdd(q, <<1>>) ELSE q
            IN IF BnBitLen(q2) > 53
               THEN Double(neg, BnShr(q2, 1), e + d + 1)
               ELSE Double(neg, q2, e + d)

Abs(n) == IF n < 0 THEN -n ELSE n
FOfInt(n) == FRound(n < 0, BnOf(Abs(n)), 0)

\* -1, 0, 1 as x < y, x = y, x > y
FCmpMag(x, y) ==
    IF IsZero(x) \/ IsZero(y)
    THEN (IF IsZero(x) /\ IsZero(y) THEN 0 ELSE IF IsZero(x) THEN -1 ELSE 1)
    ELSE IF x.e > y.e THEN 1
    ELSE IF x.e < y.e THEN -1
    ELSE BnCmp(x.m, y.m)
FCmp(x, y) ==
    IF IsZero(x) /\ IsZero(y) THEN 0
    ELSE IF IsZero(x) THEN (IF y.neg THEN 1 ELSE -1)
    ELSE IF IsZero(y) THEN (IF x.neg THEN -1 ELSE 1)
    ELSE IF x.neg # y.neg THEN (IF x.neg THEN -1 ELSE 1)
    ELSE IF x.neg THEN -FCmpMag(x, y) ELSE FCmpMag(x, y)
FMax(x, y) == IF FCmp(x, y) >= 0 THEN x ELSE y
FMin(x, y) == IF FCmp(x, y) <= 0 THEN x ELSE y

\* x * y, x / y and x + y, each rounded once.
FMul(x, y) ==
    IF IsZero(x) \/ IsZero(y) THEN FZero
    ELSE FRound(x.neg # y.neg, BnMul(x.m, y.m), x.e + y.e)
FDiv(x, y) ==
    IF IsZero(x) THEN FZero
    ELSE LET d == BnDivMod(BnShl(x.m, 57), y.m)
             sticky == IF Len(d.r) = 0 THEN <<>> ELSE <<1>>
         IN FRound(x.neg # y.neg, BnAdd(BnMulSmall(d.q, 2), sticky),
                   x.e - y.e - 58)
FAdd(x, y) ==
    IF IsZero(x) THEN y
    ELSE IF IsZero(y) THEN x
    ELSE LET e == Min(x.e, y.e)
             a == BnShl(x.m, x.e - e)
             b == BnShl(y.m, y.e - e)
         IN IF x.neg = y.neg THEN FRound(x.neg, BnAdd(a, b), e)
            ELSE IF BnCmp(a, b) >= 0 THEN FRound(x.neg, BnSub(a, b), e)
            ELSE FRound(y.neg, BnSub(b, a), e)

\* n / d for integers n and d, 0 < d < Limb, rounded once.
FQuot(n, d) ==
    IF n = 0 THEN FZero
    ELSE LET q == BnDivSmall(BnShl(BnOf(Abs(n)), 69), d)
             sticky == IF q.r = 0 THEN <<>> ELSE <<1>>
         IN FRound(n < 0, BnAdd(BnMulSmall(q.q, 2), sticky),
                   -70)

\* Math.floor(x) for x >= 0 and Math.round(x) (halves go up), as integers.
MathFloor(x) == IF IsZero(x) THEN 0 ELSE
    IF x.e >= 0 THEN BnInt(BnShl(x.m, x.e)) ELSE BnInt(BnShr(x.m, -x.e))
MathRound(x) ==
    IF IsZero(x) THEN 0
    ELSE IF x.e >= 0 THEN (IF x.neg THEN -1 ELSE 1) * BnInt(BnShl(x.m, x.e))
    ELSE LET half == BnShl(<<1>>, -x.e - 1)
         IN IF ~x.neg THEN BnInt(BnShr(BnAdd(x.m, half), -x.e))
            ELSE IF BnCmp(x.m, half) <= 0 THEN 0
            ELSE -BnInt(BnShr(BnAdd(BnSub(x.m, half),
                                    BnSub(BnShl(<<1>>, -x.e), <<1>>)), -x.e))

(***************************************************************************)
(* TradeGenerator: part_006 (mock-data-generator, "mock") and part_003     *)
(* (backend, "backend").                                                   *)
(*                                                                         *)
(* part_006 keeps prices rounded to the cent: a price of c cents is the    *)
(* double c / 100, a percentage change of k is the double k / 100, and one *)
(* nextTrade moves the price in double arithmetic.  part_003 keeps         *)
(* unrounded                                                               *)
(* prices: a price is price[sym] / PriceDen^scale[sym] dollars, and one    *)
(* generateTrade multiplies it by (PriceDen + r * vol) / PriceDen, with    *)
(* r = (Math.random() - 0.5) / 0.4 and vol = symbolVolatility * 256 / 5.   *)
(***************************************************************************)
Symbols == {"AAPL", "INTC"}

\* part_006, defaultBasePrices, in cents.
DefaultBasePrice(sym) == IF sym = "AAPL" THEN 18950 ELSE 4390

\* part_003, initializeSymbolPrices: Math.random() * 500 + 50, in dollars.
StartPrices == {50, 60}
\* part_003, initializeVolatility: Math.random() * 0.03 + 0.01, as 5/256 and 10/256.
Volatilities == {1, 2}
PriceDen == 128

\* The inputs of one nextTrade / generateTrade: the symbol drawn, the
\* percentage change the random draws add up to (part_006), the change of
\* the volatility multiplier in thousandths (part_006), and r (part_003).
PctChanges == {-150, 1, 400}
MultiplierChanges == {20}
RandomDraws == {-1, 0, 1}
Draws ==
    IF engine = "mock"
    THEN [sym : Symbols, pct : PctChanges, dv : MultiplierChanges, r : {0}]
    ELSE [sym : Symbols, pct : {0}, dv : {0}, r : RandomDraws]

RECURSIVE Pow(_, _)
Pow(b, k) == IF k = 0 THEN 1 ELSE b * Pow(b, k - 1)

clamp(val, min, max) == Max(min, Min(max, val))

\* The double a price of c cents, or a change of k percent, is stored as.
Hundredths(c) == FQuot(c, 100)

\* part_006 line 108, on doubles:
\* Math.max(price * 0.5, Math.min(price, basePrice * 2)).
HardBounds(x, base) ==
    FMax(FMul(x, FQuot(1, 2)), FMin(x, FMul(base, FOfInt(2))))

\* roundTo(num, decimals): Math.round(num * f) / f with f = 10 ** decimals.
\* The result is the integer Math.round gives, which stands for the double
\* of that integer divided by f.
roundTo(num, decimals) == MathRound(FMul(num, FOfInt(Pow(10, decimals))))

\* part_006 lines 107-109: the price in cents after a change of pct percent.
MovedPrice(c, pct, base) ==
    roundTo(HardBounds(FMul(Hundredths(c), FAdd(FOfInt(1), Hundredths(pct))),
                       Hundredths(base)), 2)

\* MovedPrice, computed once for every price a symbol can have within k
\* trades of an engine built with the default base prices: a function of
\* the price in cents and the change in percent.
RECURSIVE MovedPricesWithin(_, _)
MovedPricesWithin(sym, k) ==
    IF k = 0 THEN [x \in {} |-> 0]
    ELSE LET before == MovedPricesWithin(sym, k - 1)
             prices == {DefaultBasePrice(sym)} \cup {before[x] : x \in DOMAIN before}
         IN before @@ [x \in (prices \X PctChanges) \ DOMAIN before |->
                          MovedPrice(x[1], x[2], DefaultBasePrice(sym))]

MovedPrices ==
    [sym \in Symbols |-> MovedPricesWithin(sym, Max(MaxSteps, MaxTotal) + 1)]

\* part_006 lines 107-109 for the price c of sym and a change of pct percent.
PriceAfter(sym, c, pct) == MovedPrices[sym][<<c, pct>>]

\* this._tradeId += 1 (part_006); this.tradeId++ (part_003): the counter
\* after the call and the id the trade gets.
NextCounter(id) == id + 1
TradeIdStale(id) == 0
TradeId(id) == IF engine = "mock" THEN id + 1 ELSE id

\* The engine's state as a record.
EngineState ==
    [price |-> price, basePrice |-> basePrice, scale |-> scale,
     momentum |-> momentum, volatilityMultiplier |-> volatilityMultiplier,
     symbolVolatility |-> symbolVolatility, tradeId |-> tradeId,
     out |-> <<>>]

\* The price a trade carries, in cents: s.price (part_006),
\* parseFloat(newPrice.toFixed(2)) (part_003).
TradePrice(st, sym) ==
    IF engine = "mock" THEN st.price[sym]
    ELSE LET d == Pow(PriceDen, st.scale[sym])
             whole == st.price[sym] \div d
             cents == 100 * (st.price[sym] % d)
         IN 100 * whole + (cents \div d)
              + (IF 2 * (cents % d) >= d THEN 1 ELSE 0)

\* The price p / PriceDen^k written with the smallest power of PriceDen.
RECURSIVE Lowest(_, _)
Lowest(p, k) ==
    IF k > 0 /\ p % PriceDen = 0 THEN Lowest(p \div PriceDen, k - 1)
    ELSE [p |-> p, k |-> k]

\* nextTrade(symbol) of part_006 / generateTrade() of part_003, with the
\* random draws d: the state after the call, the trade appended to out.
nextTrade(st, d) ==
    LET sym == d.sym
        moved ==
            IF engine = "mock"
            THEN [st EXCEPT
                    !.volatilityMultiplier[sym] = clamp(@ + d.dv, 400, 2500),
                    !.momentum[sym] = d.pct,
                    !.price[sym] =
                        PriceAfter(sym, @, d.pct)]
            ELSE LET newPrice ==
                         Lowest(Max(st.price[sym] * (PriceDen
                                        + d.r * st.symbolVolatility[sym]),
                                    st.price[sym] * (PriceDen \div 2)),
                                st.scale[sym] + 1)
                 IN [st EXCEPT !.price[sym] = newPrice.p,
                               !.scale[sym] = newPrice.k]
    IN [moved EXCEPT
          !.tradeId = NextCounter(st.tradeId),
          !.out = Append(st.out, [id |-> TradeId(st.tradeId), symbol |-> sym,
                                  price |-> TradePrice(moved, sym)])]

\* generateBatch(count): nextTrade for each of the draws in turn.
RECURSIVE generateTrades(_, _)
generateTrades(st, ds) ==
    IF Len(ds) = 0 THEN st
    ELSE generateTrades(nextTrade(st, Head(ds)), Tail(ds))

\* What the last call of the engine did: the count asked for and the
\* trades returned.
Eg(op, count, out) == [op |-> op, count |-> count, trades |-> out]

\* The id of the last trade returned so far (-1: none since the engine was
\* built or reset).
LastOf(out, last) == IF Len(out) = 0 THEN last ELSE out[Len(out)].id

SetEngine(st) ==
    /\ price' = st.price
    /\ basePrice' = st.basePrice
    /\ scale' = st.scale
    /\ momentum' = st.momentum
    /\ volatilityMultiplier' = st.volatilityMultiplier
    /\ symbolVolatility' = st.symbolVolatility
    /\ tradeId' = st.tradeId

\* this.generator.generateBatch(count) as a scheduler's tick calls it: the
\* engine after the trades of the draws ds.
EngineGenerates(ds) ==
    \E st \in {generateTrades(EngineState, ds)} :
        /\ SetEngine(st)
        /\ eg' = Eg("generateBatch", Len(ds), st.out)
        /\ lastId' = LastOf(st.out, lastId)
        /\ generated' = generated + Len(ds)
        /\ UNCHANGED engine

\* nextTrade(symbol) / generateTrade()
NextTrade ==
    /\ generated < MaxSteps
    /\ \E d \in Draws : \E st \in {nextTrade(EngineState, d)} :
        /\ SetEngine(st)
        /\ eg' = Eg("nextTrade", 1, st.out)
        /\ lastId' = LastOf(st.out, lastId)
    /\ generated' = generated + 1
    /\ UNCHANGED engine
    /\ UNCHANGED <<gwVars, srVars, clVars, dsVars, lpVars, hkVars, otVars>>

\* generateBatch(count)
GenerateBatch(count) ==
    /\ generated + count <= MaxSteps
    /\ \E ds \in [1..count -> Draws] : EngineGenerates(ds)
    /\ UNCHANGED <<gwVars, srVars, clVars, dsVars, lpVars, hkVars, otVars>>

\* reset(): part_006 restores each symbol's fields; part_003 draws new
\* prices and volatilities.
ResetEngine ==
    /\ IF engine = "mock"
       THEN /\ price' = basePrice
            /\ momentum' = [sym \in Symbols |-> 0]
            /\ volatilityMultiplier' = [sym \in Symbols |-> 1000]
            /\ UNCHANGED <<basePrice, scale, symbolVolatility>>
       ELSE /\ price' \in [Symbols -> StartPrices]
            /\ basePrice' = price'
            /\ symbolVolatility' \in [Symbols -> Volatilities]
            /\ scale' = [sym \in Symbols |-> 0]
            /\ UNCHANGED <<momentum, volatilityMultiplier>>
    /\ tradeId' = 0
    /\ lastId' = -1
    /\ eg' = Eg("reset", 0, <<>>)
    /\ UNCHANGED <<engine, generated>>
    /\ UNCHANGED <<gwVars, srVars, clVars, dsVars, lpVars, hkVars, otVars>>

\* The engine as its constructor leaves it.
EngineConstructed ==
    /\ IF engine = "mock"
       THEN /\ basePrice = [sym \in Symbols |-> DefaultBasePrice(sym)]
            /\ symbolVolatility = [sym \in Symbols |-> 0]
            /\ volatilityMultiplier = [sym \in Symbols |-> 1000]
       ELSE /\ basePrice \in [Symbols -> StartPrices]
            /\ symbolVolatility \in [Symbols -> Volatilities]
            /\ volatilityMultiplier = [sym \in Symbols |-> 0]
    /\ price = basePrice
    /\ scale = [sym \in Symbols |-> 0]
    /\ momentum = [sym \in Symbols |-> 0]
    /\ tradeId = 0
    /\ generated = 0
    /\ lastId = -1
    /\ eg = Eg("new", 0, <<>>)

(***************************************************************************)
(* StreamRunner and DataStreamingService: the tick interval and the ticks. *)
(***************************************************************************)
\* A duration in milliseconds as the fraction num / den.
Ms(num, den) == [num |-> num, den |-> den]
NoInterval == Ms(0, 0)

\* Math.ceil(a / b) for integers a >= 0, b > 0.
ceil(a, b) == (a + b - 1) \div b

\* StreamRunner.start: ticksPerSecond = Math.max(1, tradesPerSecond /
\* batchSize); intervalMs = Math.max(1, Math.floor(1000 / ticksPerSecond)).
\* tradesPerSecond is positive; a batchSize of 0 gives Infinity ticks.  Both
\* quotients are doubles, each rounded once.
RunnerIntervalMs(tps, size) ==
    IF size = 0 THEN Ms(Max(1, 0), 1)
    ELSE LET ticksPerSecond == FMax(FOfInt(1), FQuot(tps, size))
         IN Ms(Max(1, MathFloor(FDiv(FOfInt(1000), ticksPerSecond))), 1)

\* The runner's interval for every rate and batch size within the bounds.
RunnerIntervals ==
    [tps \in 1..MaxRate, size \in 0..MaxBatch |-> RunnerIntervalMs(tps, size)]

\* DataStreamingService.start: batchesPerSecond = Math.ceil(tradesPerSecond
\* / batchSize); intervalMs = 1000 / batchesPerSecond, not rounded.
ServiceIntervalMs(tps, size) ==
    IF size = 0 THEN Ms(0, 1)
    ELSE Ms(1000, ceil(tps, size))

\* start()
Start ==
    /\ AlreadyRunning(running) \/ generated + totalTrades <= MaxTotal
    /\ IF AlreadyRunning(running)
       THEN UNCHANGED <<running, totalEmitted, statsWindowCount, timer,
                        statsTimer, promise, stopCalled, reported, intervalMs>>
       ELSE /\ running' = TRUE
            /\ intervalMs' = RunnerIntervals[tradesPerSecond, batchSize]
            /\ reported' = 0
            /\ totalEmitted' = 0
            /\ statsWindowCount' = 0
            /\ timer' = TRUE
            /\ statsTimer' = hasOnStats
            /\ promise' = "pending"
            /\ stopCalled' = FALSE
    /\ sr' = Sr("start", <<>>, <<>>, 0)
    /\ UNCHANGED <<tradesPerSecond, totalTrades, batchSize,
                   hasOnStats, hasOnBatch, hasOnTrade>>
    /\ UNCHANGED <<gwVars, clVars, restVars>>

\* The emission interval's callback, as far as the runner's own fields go.
\* A sink it invokes may call stop().
RunnerTick ==
    /\ timer
    /\ IF ~running
       THEN /\ sr' = Sr("tick", <<>>, <<>>, 0)
            /\ UNCHANGED <<running, totalEmitted, statsWindowCount, timer,
                           statsTimer, promise, stopCalled>>
       ELSE LET remaining == totalTrades - totalEmitted
            IN IF remaining <= 0
               THEN /\ \E h \in {stop(Handles)} :
                           /\ running' = h.running
                           /\ timer' = h.timer
                           /\ statsTimer' = h.statsTimer
                    /\ promise' = "resolved"
                    /\ sr' = Sr("tick", <<>>, <<>>, 0)
                    /\ UNCHANGED <<totalEmitted, statsWindowCount, stopCalled>>
               ELSE LET batch == generateBatch(BatchCount(batchSize, remaining))
                        calls == SinkCalls(batch)
                    IN /\ totalEmitted' = totalEmitted + Len(batch)
                       /\ statsWindowCount' = statsWindowCount + Len(batch)
                       /\ \E stopAt \in 0..Len(calls) :
                           \E h \in {IF stopAt > 0 THEN stop(Handles)
                                                   ELSE Handles} :
                               /\ running' = h.running
                               /\ timer' = h.timer
                               /\ statsTimer' = h.statsTimer
                               /\ stopCalled' = (stopCalled \/ stopAt > 0)
                               /\ sr' = Sr("tick", batch, calls, stopAt)
                       /\ UNCHANGED promise
    /\ UNCHANGED <<tradesPerSecond, intervalMs, totalTrades, batchSize,
                   hasOnStats, hasOnBatch, hasOnTrade,
                   reported>>

\* The emission interval's callback: the batch comes from
\* this.generator.generateBatch(count), which advances the runner's engine.
EmitTick ==
    /\ engine = "mock"
    /\ RunnerTick
    /\ IF running /\ totalTrades - totalEmitted > 0
       THEN \E ds \in [1..(totalEmitted' - totalEmitted) -> Draws] :
                EngineGenerates(ds)
       ELSE UNCHANGED enVars
    /\ UNCHANGED <<gwVars, clVars, dsVars, lpVars, hkVars, otVars>>

\* _statsWindowCount after a stats report.
StatsWindowKept(count) == count
StatsWindowReset(count) == 0

\* The stats interval's callback: onStats, which may call stop(), then the
\* window is reset.
StatsTick ==
    /\ statsTimer
    /\ \E stopAt \in 0..1 :
        \E h \in {IF stopAt > 0 THEN stop(Handles) ELSE Handles} :
            /\ running' = h.running
            /\ timer' = h.timer
            /\ statsTimer' = h.statsTimer
            /\ stopCalled' = (stopCalled \/ stopAt > 0)
            /\ sr' = Sr("stats", <<>>, <<"onStats">>, stopAt)
    /\ reported' = reported + statsWindowCount
    /\ statsWindowCount' = StatsWindowReset(statsWindowCount)
    /\ UNCHANGED <<tradesPerSecond, intervalMs, totalTrades, batchSize,
                   hasOnStats, hasOnBatch, hasOnTrade,
                   totalEmitted, promise>>
    /\ UNCHANGED <<gwVars, clVars, restVars>>

\* stop(), called from outside the runner's callbacks.
Stop ==
    /\ \E h \in {stop(Handles)} :
        /\ running' = h.running
        /\ timer' = h.timer
        /\ statsTimer' = h.statsTimer
    /\ stopCalled' = TRUE
    /\ sr' = [Sr("stop", <<>>, <<>>, 0) EXCEPT !.again = stopCalled]
    /\ UNCHANGED <<tradesPerSecond, intervalMs, totalTrades, batchSize,
                   hasOnStats, hasOnBatch, hasOnTrade,
                   totalEmitted, statsWindowCount, promise, reported>>
    /\ UNCHANGED <<gwVars, clVars, restVars>>

(***************************************************************************)
(* The frontend's store: the reducers of the trades slice.                 *)
(***************************************************************************)
\* state.trades keeps at most this many trades.
maxStoredTrades == 1500

\* s.slice(-n)
sliceFirst(s, n) == SubSeq(s, 1, Min(n, Len(s)))
slice(s, n) == SubSeq(s, Max(1, Len(s) - n + 1), Len(s))

\* The addTrades reducer: state.trades after the payload is appended.
addTrades(trades, payload) ==
    LET all == trades \o payload
    IN IF Len(all) > maxStoredTrades THEN slice(all, maxStoredTrades) ELSE all

\* The sizes of the payloads dispatched, around the store's capacity.
PayloadSizes == {1, maxStoredTrades - 1, maxStoredTrades + 1}

St(op) == [op |-> op]

(***************************************************************************)
(* useWebSocket (frontend): one mounted instance of the hook.              *)
(***************************************************************************)
\* What the last handler of the hook did: the payload it was given, the
\* trades it handed to the store, whether it sent a ping, the delay of the
\* reconnect it scheduled (0: none), and for onopen the number of reconnects
\* scheduled since the open before.
Cl(op, payload, forwarded, pinged, scheduled) ==
    [op |-> op, payload |-> payload, forwarded |-> forwarded,
     pinged |-> pinged, scheduled |-> scheduled, after |-> 0]

NoPayload ==
    [ok |-> TRUE, object |-> FALSE, type |-> "", hasTrades |-> FALSE,
     isArray |-> FALSE, trades |-> <<>>]

\* event.data: whether JSON.parse accepts it, and what the parsed value is.
\* The first is a text JSON.parse rejects (a truncated batch), the second
\* the text "null".
Payloads ==
    {[NoPayload EXCEPT !.ok = FALSE, !.trades = <<1>>],
     NoPayload,
     [NoPayload EXCEPT !.object = TRUE, !.type = "pong"],
     [NoPayload EXCEPT !.object = TRUE, !.type = "connected"],
     [NoPayload EXCEPT !.object = TRUE, !.hasTrades = TRUE, !.trades = <<1>>]}
    \cup {[NoPayload EXCEPT !.object = TRUE, !.hasTrades = TRUE,
                            !.isArray = TRUE, !.trades = t] :
            t \in UNION {[1..n -> TradeIds] : n \in 1..MaxTrades}}

\* onmessage: the trades the payload adds to messageBuffer.current.  A
\* payload JSON.parse rejects, and one that parses to null, throw inside the
\* try and are only logged.
ReceivedTradesUnparsed(p) == IF p.hasTrades \/ ~p.ok THEN p.trades ELSE <<>>
ReceivedTrades(p) ==
    IF ~p.ok \/ ~p.object THEN <<>>
    ELSE IF p.type = "pong" THEN <<>>
    ELSE IF p.hasTrades /\ p.isArray THEN p.trades
    ELSE <<>>

\* An interval: the ref that holds its handle ("null", "live": the handle of
\* an active interval, "stale": the handle of a cleared one) and the number
\* of active intervals of its kind.
clearInterval(t) ==
    IF t.ref = "live" THEN [ref |-> "stale", active |-> t.active - 1] ELSE t

setInterval(t) == [ref |-> "live", active |-> t.active + 1]

\* onopen: the attempt counter and the delay after a successful open.
ResetBackoffKeepsDelay(b) == [attempts |-> 0, delay |-> b.delay]
ResetBackoff(b) == [attempts |-> 0, delay |-> initialReconnectDelayMs * UsPerMs]

\* onclose: whether another attempt is made, and the delay after it.
CanReconnect(n) == n < maxReconnectAttempts

NextDelayDoubled(d) == Min(d * 2, maxReconnectDelayMs * UsPerMs)
NextDelay(d) == Min((d * 3) \div 2, maxReconnectDelayMs * UsPerMs)

\* A socket ws.current is taken from keeps its handlers until it closes.
NoOrphans == [CONNECTING |-> 0, OPEN |-> 0, CLOSING |-> 0]
Orphaned(o, st) ==
    IF st \in {"CONNECTING", "OPEN", "CLOSING"} THEN [o EXCEPT ![st] = @ + 1]
                                                  ELSE o

\* ws.close()
close(st) == IF st \in {"CONNECTING", "OPEN"} THEN "CLOSING" ELSE st

\* connect(): new WebSocket(url) throws for a url it cannot parse.
connect ==
    IF urlOk
    THEN /\ wsState' = "CONNECTING"
         /\ orphans' = Orphaned(orphans, wsState)
         /\ UNCHANGED connected
    ELSE /\ connected' = FALSE
         /\ UNCHANGED <<wsState, orphans>>

\* The effect of the hook: connect().
Mount ==
    /\ hook = "new"
    /\ hook' = "mounted"
    /\ connect
    /\ cl' = Cl("mount", NoPayload, <<>>, FALSE, 0)
    /\ UNCHANGED <<urlOk, reconnectAttempts, reconnectDelay, inboundBuffer,
                   flushInterval, heartbeatInterval, reconnectTimers, delays>>
    /\ UNCHANGED <<gwVars, srVars, enVars, dsVars, lpVars, renders, otVars>>

\* ws.onopen
onopen ==
    /\ wsState = "CONNECTING"
    /\ wsState' = "OPEN"
    /\ connected' = TRUE
    /\ \E b \in {ResetBackoff([attempts |-> reconnectAttempts,
                               delay |-> reconnectDelay])} :
        /\ reconnectAttempts' = b.attempts
        /\ reconnectDelay' = b.delay
    /\ flushInterval' = setInterval(clearInterval(flushInterval))
    /\ heartbeatInterval' = setInterval(clearInterval(heartbeatInterval))
    /\ delays' = <<>>
    /\ cl' = [Cl("open", NoPayload, <<>>, FALSE, 0) EXCEPT !.after = Len(delays)]
    /\ UNCHANGED <<urlOk, hook, inboundBuffer, reconnectTimers>>
    /\ UNCHANGED <<gwVars, srVars, restVars>>

\* ws.onmessage
onmessage(p) ==
    /\ wsState = "OPEN"
    /\ Len(stAdded) + Len(inboundBuffer) + Len(ReceivedTrades(p)) <= MaxInbound
    /\ inboundBuffer' = inboundBuffer \o ReceivedTrades(p)
    /\ cl' = Cl("message", p, <<>>, FALSE, 0)
    /\ UNCHANGED <<urlOk, hook, wsState, connected, reconnectAttempts,
                   reconnectDelay, flushInterval, heartbeatInterval,
                   reconnectTimers, delays>>
    /\ UNCHANGED <<gwVars, srVars, restVars>>

\* The socket reaches CLOSED: ws.onclose, after ws.onerror (which sets
\* the consumer's flag to false as well) when the connection failed.
onclose ==
    /\ wsState \in {"CONNECTING", "OPEN", "CLOSING"}
    /\ wsState' = "CLOSED"
    /\ connected' = FALSE
    /\ flushInterval' = clearInterval(flushInterval)
    /\ heartbeatInterval' = clearInterval(heartbeatInterval)
    /\ IF CanReconnect(reconnectAttempts)
       THEN /\ reconnectAttempts' = reconnectAttempts + 1
            /\ reconnectTimers' = reconnectTimers + 1
            /\ reconnectDelay' = NextDelay(reconnectDelay)
            /\ delays' = Append(delays, reconnectDelay)
            /\ cl' = Cl("close", NoPayload, <<>>, FALSE, reconnectDelay)
       ELSE /\ cl' = Cl("close", NoPayload, <<>>, FALSE, 0)
            /\ UNCHANGED <<reconnectAttempts, reconnectTimers, reconnectDelay,
                           delays>>
    /\ UNCHANGED <<urlOk, hook, inboundBuffer>>
    /\ UNCHANGED <<gwVars, srVars, restVars>>

\* The reconnect timeout fires: connect().
ReconnectTimeout ==
    /\ reconnectTimers > 0
    /\ reconnectTimers' = reconnectTimers - 1
    /\ connect
    /\ cl' = Cl("reconnect", NoPayload, <<>>, FALSE, 0)
    /\ UNCHANGED <<urlOk, hook, reconnectAttempts, reconnectDelay,
                   inboundBuffer, flushInterval, heartbeatInterval, delays>>
    /\ UNCHANGED <<gwVars, srVars, enVars, dsVars, lpVars, renders, otVars>>

\* The inbound-flush interval's callback: a buffer that holds anything is
\* dispatched to the store as one addTrades action, which the reducer
\* applies at once, and emptied.
flushMessages ==
    /\ flushInterval.active > 0
    /\ inboundBuffer' = <<>>
    /\ cl' = Cl("flush", NoPayload, inboundBuffer, FALSE, 0)
    /\ IF Len(inboundBuffer) > 0
       THEN /\ stTrades' = addTrades(stTrades, inboundBuffer)
            /\ stAdded' = stAdded \o inboundBuffer
       ELSE UNCHANGED <<stTrades, stAdded>>
    /\ UNCHANGED <<symbolFilter, sideFilter, stCleared, adds, sl>>
    /\ UNCHANGED <<urlOk, hook, wsState, connected, reconnectAttempts,
                   reconnectDelay, flushInterval, heartbeatInterval,
                   reconnectTimers, delays>>
    /\ UNCHANGED <<gwVars, srVars, enVars, dsVars, lpVars, hkVars, apVars>>

\* The keepalive interval's callback.
sendHeartbeat ==
    /\ heartbeatInterval.active > 0
    /\ cl' = Cl("heartbeat", NoPayload, <<>>, wsState = "OPEN", 0)
    /\ UNCHANGED <<urlOk, hook, wsState, connected, reconnectAttempts,
                   reconnectDelay, inboundBuffer, flushInterval,
                   heartbeatInterval, reconnectTimers, delays>>
    /\ UNCHANGED <<gwVars, srVars, restVars>>

\* The effect's cleanup, at unmount.
Unmount ==
    /\ hook = "mounted"
    /\ hook' = "unmounted"
    /\ flushInterval' = clearInterval(flushInterval)
    /\ heartbeatInterval' = clearInterval(heartbeatInterval)
    /\ wsState' = IF wsState \in {"CONNECTING", "OPEN"} THEN "CLOSING"
                                                        ELSE wsState
    /\ cl' = Cl("unmount", NoPayload, <<>>, FALSE, 0)
    /\ UNCHANGED <<urlOk, connected, reconnectAttempts, reconnectDelay,
                   inboundBuffer, reconnectTimers, delays>>
    /\ UNCHANGED <<gwVars, srVars, restVars>>

\* The url changes: the effect's cleanup, then the effect again with a
\* connect() for the new url (which parses as the old one did).
Rerun ==
    /\ hook = "mounted"
    /\ renders < MaxRenders
    /\ renders' = renders + 1
    /\ flushInterval' = clearInterval(flushInterval)
    /\ heartbeatInterval' = clearInterval(heartbeatInterval)
    /\ IF urlOk
       THEN /\ wsState' = "CONNECTING"
            /\ orphans' = Orphaned(orphans, close(wsState))
            /\ UNCHANGED connected
       ELSE /\ connected' = FALSE
            /\ wsState' = close(wsState)
            /\ UNCHANGED orphans
    /\ cl' = Cl("rerun", NoPayload, <<>>, FALSE, 0)
    /\ UNCHANGED <<urlOk, hook, reconnectAttempts, reconnectDelay,
                   inboundBuffer, reconnectTimers, delays>>
    /\ UNCHANGED <<gwVars, srVars, enVars, dsVars, lpVars, otVars>>

\* onopen of a socket ws.current refers to no more.
OrphanOpen ==
    /\ orphans.CONNECTING > 0
    /\ orphans' = [orphans EXCEPT !.CONNECTING = @ - 1, !.OPEN = @ + 1]
    /\ connected' = TRUE
    /\ \E b \in {ResetBackoff([attempts |-> reconnectAttempts,
                               delay |-> reconnectDelay])} :
        /\ reconnectAttempts' = b.attempts
        /\ reconnectDelay' = b.delay
    /\ flushInterval' = setInterval(clearInterval(flushInterval))
    /\ heartbeatInterval' = setInterval(clearInterval(heartbeatInterval))
    /\ delays' = <<>>
    /\ cl' = [Cl("open", NoPayload, <<>>, FALSE, 0) EXCEPT !.after = Len(delays)]
    /\ UNCHANGED <<urlOk, hook, wsState, inboundBuffer, reconnectTimers,
                   renders>>
    /\ UNCHANGED <<gwVars, srVars, enVars, dsVars, lpVars, otVars>>

\* onmessage of such a socket.
OrphanMessage(p) ==
    /\ orphans.OPEN > 0
    /\ Len(stAdded) + Len(inboundBuffer) + Len(ReceivedTrades(p)) <= MaxInbound
    /\ inboundBuffer' = inboundBuffer \o ReceivedTrades(p)
    /\ cl' = Cl("message", p, <<>>, FALSE, 0)
    /\ UNCHANGED <<urlOk, hook, wsState, connected, reconnectAttempts,
                   reconnectDelay, flushInterval, heartbeatInterval,
                   reconnectTimers, delays>>
    /\ UNCHANGED <<gwVars, srVars, restVars>>

\* onclose of such a socket.
OrphanClose ==
    /\ \E st \in {"CONNECTING", "OPEN", "CLOSING"} :
        /\ orphans[st] > 0
        /\ orphans' = [orphans EXCEPT ![st] = @ - 1]
    /\ connected' = FALSE
    /\ flushInterval' = clearInterval(flushInterval)
    /\ heartbeatInterval' = clearInterval(heartbeatInterval)
    /\ IF CanReconnect(reconnectAttempts)
       THEN /\ reconnectAttempts' = reconnectAttempts + 1
            /\ reconnectTimers' = reconnectTimers + 1
            /\ reconnectDelay' = NextDelay(reconnectDelay)
            /\ delays' = Append(delays, reconnectDelay)
            /\ cl' = Cl("close", NoPayload, <<>>, FALSE, reconnectDelay)
       ELSE /\ cl' = Cl("close", NoPayload, <<>>, FALSE, 0)
            /\ UNCHANGED <<reconnectAttempts, reconnectTimers, reconnectDelay,
                           delays>>
    /\ UNCHANGED <<urlOk, hook, wsState, inboundBuffer, renders>>
    /\ UNCHANGED <<gwVars, srVars, enVars, dsVars, lpVars, otVars>>

(***************************************************************************)
(* DataStreamingService (backend): an interval generates a batch and       *)
(* publishes it to the broker; the callback is async and waits for the     *)
(* publish.                                                                *)
(***************************************************************************)
\* What the last step of the service did: the trades of the batch it
\* concerns, and whether it found the publish failed.
Ds(op, n, failed) == [op |-> op, n |-> n, failed |-> failed]

Stats ==
    [tradesGenerated |-> tradesGenerated, tradesPublished |-> tradesPublished,
     batchesPublished |-> batchesPublished, errors |-> errors]

\* The callback after `await KafkaManager.publishTrades(trades)`: the two
\* published counters on success, the catch block on failure.
AfterPublishCountsAll(st, n, ok) ==
    [st EXCEPT !.tradesPublished = @ + n, !.batchesPublished = @ + 1]
AfterPublish(st, n, ok) ==
    IF ok
    THEN [st EXCEPT !.tradesPublished = @ + n, !.batchesPublished = @ + 1]
    ELSE [st EXCEPT !.errors = @ + 1]

SetStats(st) ==
    /\ tradesGenerated' = st.tradesGenerated
    /\ tradesPublished' = st.tradesPublished
    /\ batchesPublished' = st.batchesPublished
    /\ errors' = st.errors

\* start()
DsStart ==
    /\ IF AlreadyRunning(dsIsRunning)
       THEN UNCHANGED <<dsIsRunning, streamInterval, dsIntervalMs>>
       ELSE /\ dsIsRunning' = TRUE
            /\ dsIntervalMs' =
                   ServiceIntervalMs(dsTradesPerSecond, dsBatchSize)
            /\ streamInterval' = setInterval(streamInterval)
    /\ sv' = Ds("start", 0, FALSE)
    /\ UNCHANGED <<dsBatchSize, dsTradesPerSecond, inFlight, tradesGenerated, tradesPublished,
                   batchesPublished, errors, dsTicks>>
    /\ UNCHANGED <<gwVars, srVars, clVars, enVars, lpVars, hkVars, otVars>>

\* The interval's callback up to its await.  publishTrades throws at once
\* when the producer is not connected, returns at once for an empty batch,
\* and otherwise waits for producer.send.
DsTick ==
    /\ engine = "backend"
    /\ streamInterval.active > 0
    /\ dsTicks < MaxTicks
    /\ generated + dsBatchSize <= MaxSteps
    /\ dsTicks' = dsTicks + 1
    /\ \E connected_ \in BOOLEAN :
        LET n == Len(generateBatch(dsBatchSize))
            gen == [Stats EXCEPT !.tradesGenerated = @ + n]
        IN /\ \E ds \in [1..n -> Draws] : EngineGenerates(ds)
           /\ IF ~connected_
              THEN /\ SetStats(AfterPublish(gen, n, FALSE))
                   /\ sv' = Ds("tick", n, TRUE)
                   /\ UNCHANGED inFlight
              ELSE IF n = 0
              THEN /\ SetStats(AfterPublish(gen, n, TRUE))
                   /\ sv' = Ds("tick", n, FALSE)
                   /\ UNCHANGED inFlight
              ELSE /\ SetStats(gen)
                   /\ inFlight' = inFlight + 1
                   /\ sv' = Ds("tick", n, FALSE)
    /\ UNCHANGED <<dsBatchSize, dsTradesPerSecond, dsIntervalMs, dsIsRunning, streamInterval>>
    /\ UNCHANGED <<gwVars, srVars, clVars, lpVars, hkVars, otVars>>

\* producer.send settles and the callback goes on after its await.
DsPublishSettled ==
    /\ inFlight > 0
    /\ inFlight' = inFlight - 1
    /\ \E ok \in BOOLEAN :
        /\ SetStats(AfterPublish(Stats, dsBatchSize, ok))
        /\ sv' = Ds("settled", dsBatchSize, ~ok)
    /\ UNCHANGED <<dsBatchSize, dsTradesPerSecond, dsIntervalMs, dsIsRunning, streamInterval, dsTicks>>
    /\ UNCHANGED <<gwVars, srVars, clVars, enVars, lpVars, hkVars, otVars>>

\* stop()
DsStopCall ==
    /\ streamInterval' =
         IF streamInterval.ref = "live"
         THEN [clearInterval(streamInterval) EXCEPT !.ref = "null"]
         ELSE streamInterval
    /\ dsIsRunning' = FALSE
    /\ sv' = Ds("stop", 0, FALSE)
    /\ UNCHANGED <<dsBatchSize, dsTradesPerSecond, dsIntervalMs, inFlight,
                   tradesGenerated, tradesPublished, batchesPublished, errors,
                   dsTicks>>

DsStop ==
    /\ DsStopCall
    /\ UNCHANGED <<gwVars, srVars, clVars, enVars, lpVars, hkVars, otVars>>

\* resetStats(): this.stats is replaced by zeroed counters (POST
\* /api/streaming/reset calls it); a publish in flight still settles.
DsResetStats ==
    /\ SetStats([tradesGenerated |-> 0, tradesPublished |-> 0,
                 batchesPublished |-> 0, errors |-> 0])
    /\ sv' = Ds("reset", 0, FALSE)
    /\ UNCHANGED <<dsBatchSize, dsTradesPerSecond, dsIntervalMs, dsIsRunning,
                   streamInterval, inFlight, dsTicks>>
    /\ UNCHANGED <<gwVars, srVars, clVars, enVars, lpVars, hkVars, otVars>>

\* The service after start() as Application.start() awaits it.
ServiceStarted ==
    /\ dsIsRunning = TRUE
    /\ streamInterval = setInterval([ref |-> "null", active |-> 0])
    /\ dsIntervalMs = ServiceIntervalMs(dsTradesPerSecond, dsBatchSize)
    /\ inFlight = 0
    /\ tradesGenerated = 0
    /\ tradesPublished = 0
    /\ batchesPublished = 0
    /\ errors = 0
    /\ dsTicks = 0
    /\ sv = Ds("start", 0, FALSE)

\* The service as its constructor leaves it.
ServiceConstructed ==
    /\ dsIsRunning = FALSE
    /\ streamInterval = [ref |-> "null", active |-> 0]
    /\ inFlight = 0
    /\ tradesGenerated = 0
    /\ tradesPublished = 0
    /\ batchesPublished = 0
    /\ errors = 0
    /\ dsTicks = 0
    /\ sv = Ds("new", 0, FALSE)
    /\ dsIntervalMs = NoInterval

(***************************************************************************)
(* The gateway's loops over the registry, entry by entry.  A timer's       *)
(* callback or an event's handler is taken from the event loop's queue     *)
(* when the call stack is empty; the loops of part_002's broadcastBatch    *)
(* and performHeartbeat are synchronous (no await, no callback inside).    *)
(***************************************************************************)
Idle == [kind |-> "idle", todo |-> <<>>]
Iterating(kind, cs) == [kind |-> kind, todo |-> cs]

\* Whether the event loop may start another callback: the loop in progress
\* never yields.
CallStackEmptyAtAwait(t) == TRUE
CallStackEmpty(t) == t.kind = "idle"

GatewayCounters == <<enqueued, runs, flushedUpTo, tickMark>>
ProbeHistory == <<probed, missedLast, everMissed>>

\* part_002: the interval's callback begins: broadcastBatch() if the buffer
\* holds something (it returns at once with no client), else the sweep.
TickBegin ==
    /\ variant = "instance"
    /\ broadcastInterval
    /\ CallStackEmpty(task)
    /\ task' = IF Len(messageBuffer) > 0 /\ Len(clients) > 0
               THEN Iterating("flush", clients)
               ELSE Iterating("sweep", clients)
    /\ ev' = Ev("flushTick", 0)
    /\ UNCHANGED <<variant, rs, clientId, clients, isAlive, wsIsAlive,
                   sinceHeartbeat, sinceSweep, messageBuffer, staleAt,
                   GatewayCounters, ProbeHistory>>
    /\ UNCHANGED <<srVars, clVars, sdVars, enVars, dsVars, hkVars, otVars>>

\* One turn of the send loop: the entry's socket is sent the batch if OPEN;
\* a send that throws is caught and logged.
FlushStep ==
    /\ task.kind = "flush"
    /\ Len(task.todo) > 0
    /\ task' = [task EXCEPT !.todo = Tail(@)]
    /\ UNCHANGED <<variant, rs, clientId, clients, isAlive, wsIsAlive,
                   sinceHeartbeat, sinceSweep, messageBuffer, staleAt,
                   GatewayCounters, ProbeHistory, ev>>
    /\ UNCHANGED <<srVars, clVars, sdVars, enVars, dsVars, hkVars, otVars>>

\* The send loop is over: the buffer is replaced and the callback goes on
\* to performHeartbeat().
FlushEnd ==
    /\ task.kind = "flush"
    /\ Len(task.todo) = 0
    /\ messageBuffer' = <<>>
    /\ flushedUpTo' = 0
    /\ enqueued' = 0
    /\ runs' = 0
    /\ tickMark' = 0
    /\ staleAt' = [s \in Sockets |-> 0]
    /\ task' = Iterating("sweep", clients)
    /\ UNCHANGED <<variant, rs, clientId, clients, isAlive, wsIsAlive,
                   sinceHeartbeat, sinceSweep, ProbeHistory, ev>>
    /\ UNCHANGED <<srVars, clVars, sdVars, enVars, dsVars, hkVars, otVars>>

\* One turn of the sweep's loop: the entry is terminated and deleted, or
\* marked and probed.  An entry deleted since the loop began is not visited.
SweepStep ==
    /\ task.kind = "sweep"
    /\ Len(task.todo) > 0
    /\ task' = [task EXCEPT !.todo = Tail(@)]
    /\ LET e == Head(task.todo)
           swept == {e.ws} \cap Registered(clients)
           one == IF swept = {} THEN <<>> ELSE <<e>>
           hb == performHeartbeat(one, isAlive, rs)
           stay == Registered(hb.clients)
       IN /\ clients' = IF swept \ stay = {} THEN clients
                                              ELSE MapDelete(clients, e.id)
          /\ rs' = hb.rs
          /\ isAlive' = hb.isAlive
          /\ missedLast' = SweepMissedLast(swept, stay)
          /\ everMissed' = SweepEverMissed(swept, stay)
          /\ probed' = SweepProbed(swept, stay, hb.pinged)
          /\ staleAt' = Forget(staleAt, swept \ stay, 0)
    /\ UNCHANGED <<variant, clientId, wsIsAlive, sinceHeartbeat, sinceSweep,
                   messageBuffer, GatewayCounters, ev>>
    /\ UNCHANGED <<srVars, clVars, sdVars, enVars, dsVars, hkVars, otVars>>

\* The sweep's loop is over: the callback returns.
SweepEnd ==
    /\ task.kind = "sweep"
    /\ Len(task.todo) = 0
    /\ task' = Idle
    /\ UNCHANGED <<gwVars, srVars, clVars, enVars, dsVars, hkVars, otVars>>

(***************************************************************************)
(* Specifications.                                                         *)
(***************************************************************************)
GatewayStarted ==
    /\ rs = [s \in Sockets |-> "NONE"]
    /\ clientId = [s \in Sockets |-> 0]
    /\ clients = <<>>
    /\ isAlive = [s \in Sockets |-> FALSE]
    /\ wsIsAlive = [s \in Sockets |-> FALSE]
    /\ sinceHeartbeat = [s \in Sockets |-> 0]
    /\ sinceSweep = 0
    /\ messageBuffer = <<>>
    /\ enqueued = 0
    /\ runs = 0
    /\ flushedUpTo = 0
    /\ tickMark = 0
    /\ probed = [s \in Sockets |-> FALSE]
    /\ missedLast = [s \in Sockets |-> FALSE]
    /\ everMissed = [s \in Sockets |-> FALSE]
    /\ staleAt = [s \in Sockets |-> 0]
    /\ ev = Ev("init", 0)
    /\ broadcastInterval = TRUE
    /\ shutdownCalled = FALSE
    /\ shutdownPending = 0
    /\ isRunning = TRUE

(***************************************************************************)
(* The frontend's store: the actions dispatched from outside the hook.      *)
(***************************************************************************)
\* dispatch(addTrades(payload)); the trades are numbered as they arrive.
DispatchAddTrades ==
    /\ adds < MaxAdds
    /\ adds' = adds + 1
    /\ \E n \in PayloadSizes :
        LET payload == [i \in 1..n |-> Len(stAdded) + i]
        IN /\ stTrades' = addTrades(stTrades, payload)
           /\ stAdded' = stAdded \o payload
    /\ sl' = St("addTrades")
    /\ UNCHANGED <<symbolFilter, sideFilter, stCleared>>
    /\ UNCHANGED <<gwVars, srVars, clVars, enVars, dsVars, lpVars, hkVars, apVars>>

\* dispatch(clearTrades())
ClearTrades ==
    /\ stTrades' = <<>>
    /\ stCleared' = Len(stAdded)
    /\ sl' = St("clearTrades")
    /\ UNCHANGED <<symbolFilter, sideFilter, stAdded, adds>>
    /\ UNCHANGED <<gwVars, srVars, clVars, enVars, dsVars, lpVars, hkVars, apVars>>

\* dispatch(setSymbolFilter(v)), dispatch(setSideFilter(v))
SetSymbolFilter(v) ==
    /\ symbolFilter' = v
    /\ sl' = St("setSymbolFilter")
    /\ UNCHANGED <<stTrades, sideFilter, stAdded, stCleared, adds>>
    /\ UNCHANGED <<gwVars, srVars, clVars, enVars, dsVars, lpVars, hkVars, apVars>>

SetSideFilter(v) ==
    /\ sideFilter' = v
    /\ sl' = St("setSideFilter")
    /\ UNCHANGED <<stTrades, symbolFilter, stAdded, stCleared, adds>>
    /\ UNCHANGED <<gwVars, srVars, clVars, enVars, dsVars, lpVars, hkVars, apVars>>

\* dispatch(setConnected(v)): state.isConnected is the hook's connected flag.
SetConnected(v) ==
    /\ connected' = v
    /\ sl' = St("setConnected")
    /\ UNCHANGED <<stTrades, symbolFilter, sideFilter, stAdded, stCleared,
                   adds>>
    /\ UNCHANGED <<urlOk, hook, wsState, reconnectAttempts, reconnectDelay,
                   inboundBuffer, flushInterval, heartbeatInterval,
                   reconnectTimers, delays, cl>>
    /\ UNCHANGED <<gwVars, srVars, enVars, dsVars, lpVars, hkVars, apVars>>

\* The slice's initialState.
StoreCreated ==
    /\ stTrades = <<>>
    /\ symbolFilter = "null"
    /\ sideFilter = "null"
    /\ stAdded = <<>>
    /\ stCleared = 0
    /\ adds = 0
    /\ sl = St("init")

(***************************************************************************)
(* Application (part_005): the handlers setupGracefulShutdown() registers. *)
(***************************************************************************)
SignalNames == {"SIGINT", "SIGTERM", "uncaughtException", "unhandledRejection"}

Ap(op, signal, ignored) == [op |-> op, signal |-> signal, ignored |-> ignored]

\* shutdown(signal) begins with `if (this.isShuttingDown) return`.
ShuttingDownIgnored(flag) == FALSE
ShuttingDown(flag) == flag

Alive == exitCode = "none"

\* A signal or an uncaught error arrives and the handler registered for it
\* runs; `thrown` is what an uncaught throw hands to its handler: a value
\* with properties (an Error, a string, ...) or null / undefined.  The
\* 'uncaughtException' handler reads error.message before it calls
\* shutdown(): with null or undefined that read throws inside the handler,
\* which ends the process with status 7, shutdown() not called.  Otherwise
\* shutdown(signal) runs up to its first await, with
\* DataStreamingService.stop() and the synchronous part of
\* WebSocketGateway.shutdown().
Signal(signal, thrown) ==
    /\ Alive
    /\ signals < MaxSignals
    /\ signals' = signals + 1
    /\ IF signal = "uncaughtException" /\ thrown = "nullish"
       THEN /\ exitCode' = "7"
            /\ appPc' = "exited"
            /\ ap' = Ap("handlerThrew", signal, FALSE)
            /\ UNCHANGED <<isShuttingDown, steps, gwVars, dsVars>>
       ELSE IF ShuttingDown(isShuttingDown)
       THEN /\ ap' = Ap("signal", signal, TRUE)
            /\ UNCHANGED <<isShuttingDown, appPc, steps, exitCode, gwVars,
                           dsVars>>
       ELSE /\ isShuttingDown' = TRUE
            /\ DsStopCall
            /\ ShutdownCall
            /\ isRunning' = IF variant = "static" THEN FALSE ELSE isRunning
            /\ steps' = steps \o <<"streaming", "gateway">>
            /\ appPc' = "gateway"
            /\ ap' = Ap("signal", signal, FALSE)
            /\ UNCHANGED exitCode
    /\ UNCHANGED httpServer
    /\ UNCHANGED <<srVars, clVars, enVars, lpVars, hkVars, stVars>>

\* WebSocketGateway.shutdown() has resolved: KafkaManager.disconnect() is
\* called.
GatewayDown ==
    /\ Alive
    /\ appPc = "gateway"
    /\ shutdownPending = 0
    /\ steps' = Append(steps, "broker")
    /\ appPc' = "broker"
    /\ ap' = Ap("gatewayDown", "", FALSE)
    /\ UNCHANGED <<httpServer, isShuttingDown, exitCode, signals>>
    /\ UNCHANGED <<gwVars, srVars, clVars, enVars, dsVars, lpVars, hkVars,
                   stVars>>

\* KafkaManager.disconnect() has settled: on a rejection the catch block
\* exits with 1, otherwise the HTTP server, when there is one, is closed.
BrokerDown(ok) ==
    /\ Alive
    /\ appPc = "broker"
    /\ IF ~ok
       THEN /\ exitCode' = "1"
            /\ appPc' = "exited"
            /\ UNCHANGED steps
       ELSE IF httpServer
       THEN /\ steps' = Append(steps, "http")
            /\ appPc' = "http"
            /\ UNCHANGED exitCode
       ELSE /\ exitCode' = "0"
            /\ appPc' = "exited"
            /\ UNCHANGED steps
    /\ ap' = Ap("brokerDown", "", FALSE)
    /\ UNCHANGED <<httpServer, isShuttingDown, signals>>
    /\ UNCHANGED <<gwVars, srVars, clVars, enVars, dsVars, lpVars, hkVars,
                   stVars>>

\* The callback of httpServer.server.close(): process.exit(0).
HttpClosed ==
    /\ Alive
    /\ appPc = "http"
    /\ exitCode' = "0"
    /\ appPc' = "exited"
    /\ ap' = Ap("httpClosed", "", FALSE)
    /\ UNCHANGED <<httpServer, isShuttingDown, steps, signals>>
    /\ UNCHANGED <<gwVars, srVars, clVars, enVars, dsVars, lpVars, hkVars,
                   stVars>>

\* The application after start() has returned true.
ApplicationStarted ==
    /\ httpServer = TRUE
    /\ isShuttingDown = FALSE
    /\ appPc = "running"
    /\ steps = <<>>
    /\ exitCode = "none"
    /\ signals = 0
    /\ ap = Ap("start", "", FALSE)

RunnerConstructed ==
    /\ running = FALSE
    /\ totalEmitted = 0
    /\ timer = FALSE
    /\ statsTimer = FALSE
    /\ statsWindowCount = 0
    /\ promise = "none"
    /\ stopCalled = FALSE
    /\ sr = Sr("new", <<>>, <<>>, 0)
    /\ reported = 0
    /\ intervalMs = NoInterval

\* The hook before its effect has run.
HookRendered ==
    /\ hook = "new"
    /\ wsState = "NONE"
    /\ connected = FALSE
    /\ reconnectAttempts = 0
    /\ reconnectDelay = initialReconnectDelayMs * UsPerMs
    /\ inboundBuffer = <<>>
    /\ flushInterval = [ref |-> "null", active |-> 0]
    /\ heartbeatInterval = [ref |-> "null", active |-> 0]
    /\ reconnectTimers = 0
    /\ delays = <<>>
    /\ cl = Cl("new", NoPayload, <<>>, FALSE, 0)
    /\ orphans = NoOrphans
    /\ renders = 0

RunnerIdle ==
    /\ tradesPerSecond = 1
    /\ totalTrades = 0 /\ batchSize = 1 /\ hasOnStats = FALSE
    /\ hasOnBatch = FALSE /\ hasOnTrade = FALSE
    /\ RunnerConstructed

\* The system after construction and the gateway's initialize(): either
\* gateway, either trade engine, no runner in use, the client not yet mounted.
Init ==
    /\ variant \in {"instance", "static"}
    /\ GatewayStarted
    /\ RunnerIdle
    /\ urlOk = TRUE
    /\ HookRendered
    /\ engine \in {"mock", "backend"}
    /\ EngineConstructed
    /\ dsBatchSize = 1
    /\ dsTradesPerSecond = 1
    /\ ServiceConstructed
    /\ task = Idle
    /\ StoreCreated
    /\ ApplicationStarted

Next ==
    \/ \E s \in Sockets : handleClientConnection(s)
    \/ \E s \in Sockets, type \in MessageTypes : handleClientMessage(s, type)
    \/ \E s \in Sockets : onPong(s)
    \/ \E s \in Sockets : onClose(s)
    \/ \E k \in RunLengths : AddTradeToBatch(k)
    \/ startBatchBroadcast
    \/ \E s \in Sockets : StaticConnection(s)
    \/ \E s \in Sockets, type \in MessageTypes : StaticMessage(s, type)
    \/ \E s \in Sockets : StaticPong(s)
    \/ \E s \in Sockets : StaticClose(s)
    \/ \E k \in RunLengths : StaticAddTradeToBatch(k)
    \/ StaticFlushTick
    \/ StaticHeartbeat
    \/ Advance
    \/ \E s \in Sockets : BeginClose(s)
    \/ \E s \in Sockets : TcpConnection(s)
    \/ \E s \in Sockets : TcpEnd(s)
    \/ shutdown
    \/ StaticShutdown
    \/ ShutdownComplete
    \/ Start
    \/ EmitTick
    \/ StatsTick
    \/ Stop
    \/ Mount
    \/ onopen
    \/ \E p \in Payloads : onmessage(p)
    \/ onclose
    \/ ReconnectTimeout
    \/ flushMessages
    \/ sendHeartbeat
    \/ Unmount
    \/ NextTrade
    \/ \E count \in 0..MaxSteps : GenerateBatch(count)
    \/ ResetEngine
    \/ DsStart
    \/ DsTick
    \/ DsPublishSettled
    \/ DsStop
    \/ DsResetStats

Spec == Init /\ [][Next]_vars

\* The gateway after initialize(), for the specifications of the gateway
\* alone, in which no trade engine takes a step.
InitGateway ==
    /\ variant \in {"instance", "static"}
    /\ GatewayStarted
    /\ RunnerIdle
    /\ urlOk = TRUE
    /\ HookRendered
    /\ engine = "mock"
    /\ EngineConstructed
    /\ dsBatchSize = 1
    /\ dsTradesPerSecond = 1
    /\ ServiceConstructed
    /\ task = Idle
    /\ StoreCreated
    /\ ApplicationStarted

\* The gateway with its clock: the connections, their messages, the trades
\* with the 100 ms flush and, for part_001, the 60 s sweep beside it.
\* (part_002 sweeps on its flush tick.)
NextHeartbeat ==
    \/ \E s \in Sockets : handleClientConnection(s)
    \/ \E s \in Sockets, type \in MessageTypes : handleClientMessage(s, type)
    \/ \E s \in Sockets : onPong(s)
    \/ \E s \in Sockets : onClose(s)
    \/ \E k \in RunLengths : AddTradeToBatch(k)
    \/ startBatchBroadcast
    \/ \E s \in Sockets : StaticConnection(s)
    \/ \E s \in Sockets, type \in MessageTypes : StaticMessage(s, type)
    \/ \E s \in Sockets : StaticPong(s)
    \/ \E s \in Sockets : StaticClose(s)
    \/ \E k \in RunLengths : StaticAddTradeToBatch(k)
    \/ StaticFlushTick
    \/ StaticHeartbeat
    \/ Advance
    \/ \E s \in Sockets : BeginClose(s)

SpecHeartbeat == InitGateway /\ [][NextHeartbeat]_vars

\* The gateway with part_001 inside one sweep period: its connections, their
\* messages, the trades and the 100 ms flush.  (part_002 is there whole.)
NextDelivery ==
    \/ \E s \in Sockets : handleClientConnection(s)
    \/ \E s \in Sockets, type \in MessageTypes : handleClientMessage(s, type)
    \/ \E s \in Sockets : onPong(s)
    \/ \E s \in Sockets : onClose(s)
    \/ \E k \in RunLengths : AddTradeToBatch(k)
    \/ startBatchBroadcast
    \/ \E s \in Sockets : StaticConnection(s)
    \/ \E s \in Sockets, type \in MessageTypes : StaticMessage(s, type)
    \/ \E s \in Sockets : StaticClose(s)
    \/ \E k \in RunLengths : StaticAddTradeToBatch(k)
    \/ StaticFlushTick
    \/ \E s \in Sockets : BeginClose(s)

SpecDelivery == InitGateway /\ [][NextDelivery]_vars

\* The gateway and its shutdown: connections, trades, the timers and
\* shutdown(), without the clients' messages and pongs.
NextShutdown ==
    \/ \E s \in Sockets : handleClientConnection(s)
    \/ \E s \in Sockets : onClose(s)
    \/ \E k \in RunLengths : AddTradeToBatch(k)
    \/ startBatchBroadcast
    \/ shutdown
    \/ \E s \in Sockets : StaticConnection(s)
    \/ \E s \in Sockets : StaticClose(s)
    \/ \E k \in RunLengths : StaticAddTradeToBatch(k)
    \/ StaticFlushTick
    \/ StaticHeartbeat
    \/ Advance
    \/ StaticShutdown
    \/ ShutdownComplete
    \/ \E s \in Sockets : BeginClose(s)
    \/ \E s \in Sockets : TcpConnection(s)
    \/ \E s \in Sockets : TcpEnd(s)

SpecShutdown == InitGateway /\ [][NextShutdown]_vars

\* The same with no trades handed over.
NextShutdownCalls ==
    \/ \E s \in Sockets : handleClientConnection(s)
    \/ \E s \in Sockets : onClose(s)
    \/ startBatchBroadcast
    \/ shutdown
    \/ \E s \in Sockets : StaticConnection(s)
    \/ \E s \in Sockets : StaticClose(s)
    \/ StaticFlushTick
    \/ StaticHeartbeat
    \/ Advance
    \/ StaticShutdown
    \/ ShutdownComplete
    \/ \E s \in Sockets : BeginClose(s)
    \/ \E s \in Sockets : TcpConnection(s)
    \/ \E s \in Sockets : TcpEnd(s)

\* A closing socket's 'close' event does come (ws destroys the socket when
\* the closing handshake times out), and so does the server's close callback.
SpecShutdownFair ==
    /\ InitGateway /\ [][NextShutdownCalls]_vars
    /\ \A s \in Sockets : WF_vars(onClose(s)) /\ WF_vars(StaticClose(s))
    /\ WF_vars(ShutdownComplete)

\* A StreamRunner after its constructor; no gateway in use.
InitRunner ==
    /\ variant = "instance"
    /\ GatewayStarted
    /\ tradesPerSecond = 1
    /\ totalTrades \in 0..MaxTotal
    /\ batchSize \in 0..MaxBatch
    /\ hasOnStats \in BOOLEAN
    /\ hasOnBatch \in BOOLEAN
    /\ hasOnTrade \in BOOLEAN
    /\ RunnerConstructed
    /\ urlOk = TRUE
    /\ HookRendered
    /\ engine = "mock"
    /\ EngineConstructed
    /\ dsBatchSize = 1
    /\ dsTradesPerSecond = 1
    /\ ServiceConstructed
    /\ task = Idle
    /\ StoreCreated
    /\ ApplicationStarted

NextRunner == Start \/ EmitTick \/ StatsTick \/ Stop

SpecRunner == InitRunner /\ [][NextRunner]_vars

\* setInterval keeps firing the emission callback while the timer is set.
\* The condition is on the runner's part of the tick: generateBatch always
\* returns, so the tick can be taken whenever its runner part can.
SpecRunnerFair == SpecRunner /\ WF_srVars(RunnerTick)

\* The client hook: the effect, its cleanup at unmount, and the effect
\* running again when the url changes.  Every socket connect() created keeps
\* its handlers, which share the refs, so the sockets of earlier connect()
\* calls live on beside ws.current.
InitClient ==
    /\ variant = "instance"
    /\ GatewayStarted
    /\ RunnerIdle
    /\ urlOk \in BOOLEAN
    /\ HookRendered
    /\ engine = "mock"
    /\ EngineConstructed
    /\ dsBatchSize = 1
    /\ dsTradesPerSecond = 1
    /\ ServiceConstructed
    /\ task = Idle
    /\ StoreCreated
    /\ ApplicationStarted

NextClient ==
    \/ Mount
    \/ onopen
    \/ \E p \in Payloads : onmessage(p)
    \/ onclose
    \/ ReconnectTimeout
    \/ flushMessages
    \/ sendHeartbeat
    \/ Unmount
    \/ Rerun
    \/ OrphanOpen
    \/ \E p \in Payloads : OrphanMessage(p)
    \/ OrphanClose

SpecClient == InitClient /\ [][NextClient]_vars

\* The backend after Application.start(): the gateway with its clients,
\* the streaming service and the shutdown handlers, until the process exits.
\* The engine starts from one draw of its prices and volatilities.
InitApp ==
    /\ variant \in {"instance", "static"}
    /\ GatewayStarted
    /\ RunnerIdle
    /\ urlOk = TRUE
    /\ HookRendered
    /\ engine = "backend"
    /\ EngineConstructed
    /\ basePrice = [sym \in Symbols |-> 50]
    /\ symbolVolatility = [sym \in Symbols |-> 1]
    /\ dsBatchSize = 1
    /\ dsTradesPerSecond = 1
    /\ ServiceStarted
    /\ task = Idle
    /\ StoreCreated
    /\ ApplicationStarted

NextApp ==
    \/ \E signal \in SignalNames, thrown \in {"value", "nullish"} :
         Signal(signal, thrown)
    \/ GatewayDown
    \/ \E ok \in BOOLEAN : BrokerDown(ok)
    \/ HttpClosed
    \/ \E s \in Sockets : Alive /\ handleClientConnection(s)
    \/ \E s \in Sockets : Alive /\ onClose(s)
    \/ \E s \in Sockets : Alive /\ StaticConnection(s)
    \/ \E s \in Sockets : Alive /\ StaticClose(s)
    \/ \E s \in Sockets : Alive /\ TcpConnection(s)
    \/ \E s \in Sockets : Alive /\ TcpEnd(s)
    \/ Alive /\ ShutdownComplete
    \/ Alive /\ DsTick
    \/ Alive /\ DsPublishSettled

SpecApp == InitApp /\ [][NextApp]_vars

\* The store alone, under any sequence of its actions.
NextStore ==
    \/ DispatchAddTrades
    \/ ClearTrades
    \/ \E v \in {"null", "BTCUSDT"} : SetSymbolFilter(v)
    \/ \E v \in {"null", "BUY"} : SetSideFilter(v)
    \/ \E v \in BOOLEAN : SetConnected(v)

SpecStore == InitClient /\ [][NextStore]_vars

\* A socket that is CONNECTING opens or fails and one that is CLOSING reaches
\* CLOSED: the transport lets neither wait for ever.
SocketSettles ==
    \/ wsState \in {"CONNECTING", "CLOSING"} /\ (onopen \/ onclose)
    \/ OrphanOpen
    \/ OrphanClose /\ orphans'.OPEN = orphans.OPEN

\* A reconnect timeout that is pending fires, a socket on its way settles,
\* and setInterval fires the inbound flush.  The condition on the flush is
\* the strong one: it asks the flush to run also when its interval is only
\* active again and again (setInterval promises a call only to an interval
\* that lives 100 ms), which leaves out the runs in which nothing but the
\* timing of opens and closes keeps the buffer from being flushed.
SpecClientFair ==
    /\ SpecClient
    /\ SF_vars(flushMessages)
    /\ WF_vars(ReconnectTimeout)
    /\ WF_vars(SocketSettles)

\* A trade engine alone.
InitEngine ==
    /\ variant = "instance"
    /\ GatewayStarted
    /\ RunnerIdle
    /\ urlOk = TRUE
    /\ HookRendered
    /\ engine \in {"mock", "backend"}
    /\ EngineConstructed
    /\ dsBatchSize = 1
    /\ dsTradesPerSecond = 1
    /\ ServiceConstructed
    /\ task = Idle
    /\ StoreCreated
    /\ ApplicationStarted

NextEngine ==
    \/ NextTrade
    \/ \E count \in 0..MaxSteps : GenerateBatch(count)
    \/ ResetEngine

SpecEngine == InitEngine /\ [][NextEngine]_vars

\* part_002 with its loops taken entry by entry: the events of the sockets
\* (connections, pings, pongs, closes) and the trades, one at a time, wait
\* in the event loop's queue meanwhile.
InitLoop ==
    /\ variant = "instance"
    /\ GatewayStarted
    /\ RunnerIdle
    /\ urlOk = TRUE
    /\ HookRendered
    /\ engine = "mock"
    /\ EngineConstructed
    /\ dsBatchSize = 1
    /\ dsTradesPerSecond = 1
    /\ ServiceConstructed
    /\ task = Idle
    /\ StoreCreated
    /\ ApplicationStarted

NextLoop ==
    \/ \E s \in Sockets : CallStackEmpty(task) /\ handleClientConnection(s)
    \/ \E s \in Sockets : CallStackEmpty(task) /\ handleClientMessage(s, "ping")
    \/ \E s \in Sockets : CallStackEmpty(task) /\ onPong(s)
    \/ \E s \in Sockets : CallStackEmpty(task) /\ onClose(s)
    \/ CallStackEmpty(task) /\ AddTradeToBatch(1)
    \/ \E s \in Sockets : CallStackEmpty(task) /\ BeginClose(s)
    \/ TickBegin
    \/ FlushStep
    \/ FlushEnd
    \/ SweepStep
    \/ SweepEnd

SpecLoop == InitLoop /\ [][NextLoop]_vars

\* The backend's streaming service alone.
InitService ==
    /\ variant = "instance"
    /\ GatewayStarted
    /\ RunnerIdle
    /\ urlOk = TRUE
    /\ HookRendered
    /\ engine = "backend"
    /\ EngineConstructed
    /\ dsBatchSize \in 0..MaxBatch
    /\ dsTradesPerSecond = 1
    /\ ServiceConstructed
    /\ task = Idle
    /\ StoreCreated
    /\ ApplicationStarted

NextService ==
    DsStart \/ DsTick \/ DsPublishSettled \/ DsStop \/ DsResetStats

SpecService == InitService /\ [][NextService]_vars

\* The two schedulers, each with the engine of its package: the
\* mock-data-generator's StreamRunner, the backend's DataStreamingService.
InitSchedulers ==
    /\ variant = "instance"
    /\ GatewayStarted
    /\ tradesPerSecond = 1
    /\ engine \in {"mock", "backend"}
    /\ IF engine = "mock"
       THEN /\ totalTrades \in 0..MaxTotal
            /\ batchSize \in 0..MaxBatch
            /\ hasOnStats \in BOOLEAN
            /\ hasOnBatch \in BOOLEAN
            /\ hasOnTrade \in BOOLEAN
            /\ dsBatchSize = 1
            /\ dsTradesPerSecond = 1
       ELSE /\ totalTrades = 0 /\ batchSize = 1 /\ hasOnStats = FALSE
            /\ hasOnBatch = FALSE /\ hasOnTrade = FALSE
            /\ dsBatchSize \in 0..MaxBatch
            /\ dsTradesPerSecond = 1
    /\ RunnerConstructed
    /\ urlOk = TRUE
    /\ HookRendered
    /\ EngineConstructed
    /\ ServiceConstructed
    /\ task = Idle
    /\ StoreCreated
    /\ ApplicationStarted

NextSchedulers ==
    \/ engine = "mock" /\ Start
    \/ engine = "mock" /\ EmitTick
    \/ engine = "mock" /\ StatsTick
    \/ engine = "mock" /\ Stop
    \/ engine = "backend" /\ DsStart
    \/ engine = "backend" /\ DsTick
    \/ engine = "backend" /\ DsPublishSettled
    \/ engine = "backend" /\ DsStop
    \/ engine = "backend" /\ DsResetStats

SpecSchedulers == InitSchedulers /\ [][NextSchedulers]_vars

\* Either scheduler with a target rate and a batch size drawn from the
\* positive integers up to the bounds.
InitInterval ==
    /\ variant = "instance"
    /\ GatewayStarted
    /\ engine \in {"mock", "backend"}
    /\ IF engine = "mock"
       THEN /\ tradesPerSecond \in 1..MaxRate
            /\ batchSize \in 1..MaxBatch
            /\ totalTrades \in 0..MaxTotal
            /\ hasOnStats \in BOOLEAN
            /\ hasOnBatch = TRUE
            /\ hasOnTrade = FALSE
            /\ dsTradesPerSecond = 1
            /\ dsBatchSize = 1
       ELSE /\ tradesPerSecond = 1
            /\ totalTrades = 0 /\ batchSize = 1 /\ hasOnStats = FALSE
            /\ hasOnBatch = FALSE /\ hasOnTrade = FALSE
            /\ dsTradesPerSecond \in 1..MaxRate
            /\ dsBatchSize \in 1..MaxBatch
    /\ RunnerConstructed
    /\ urlOk = TRUE
    /\ HookRendered
    /\ EngineConstructed
    /\ ServiceConstructed
    /\ task = Idle
    /\ StoreCreated
    /\ ApplicationStarted

SpecInterval == InitInterval /\ [][NextSchedulers]_vars

(***************************************************************************)
(* Properties.                                                             *)
(***************************************************************************)
\* The messages e sent to socket s.
SentTo(e, s) == SelectSeq(e.sent, LAMBDA m : m.to = s)

\* The sockets that were connected and are in the registry no more.
Removed ==
    {s \in Sockets : rs[s] \notin {"NONE", "TCP", "ENDED"}
                      /\ s \notin Registered(clients)}

\* The trades enqueued since the last flush tick.
SinceTick == Ids(tickMark, enqueued - tickMark)

\* C1: a connection that answers every liveness probe before the next sweep
\* is never terminated or removed by a sweep: whatever OPEN connection a sweep
\* terminates had left a probe unanswered, at this sweep or at an earlier one.
C1_AnsweringConnectionSurvives == \A s \in ev.terminated : s \in ev.lapsed

\* C2: a connection that leaves the probe of one sweep unanswered until the
\* next sweep is terminated and removed from the registry by that second
\* sweep; once removed it is in the registry no more, never OPEN again, and
\* no flush sends it a batch.
C2_SilentRemovedBySecondSweep ==
    /\ [](\A s \in ev.silent : s \notin Registered(clients) /\ rs[s] # "OPEN")
    /\ [][\A s \in Removed :
            /\ s \notin Registered(clients')
            /\ rs'[s] # "OPEN"
            /\ \A i \in DOMAIN ev'.sent :
                 ev'.sent[i].type = "batch" => ev'.sent[i].to # s]_vars

\* C3: on an application message of type ping from a registered OPEN
\* connection the gateway sends that connection a pong and sets its liveness
\* flag, and leaves it OPEN and registered.
C3_PingRefreshesLiveness ==
    [][(ev'.op = "ping" /\ rs[ev'.conn] = "OPEN" /\ ev'.conn \in Registered(clients))
        => /\ SentTo(ev', ev'.conn) = <<Msg(ev'.conn, "pong", <<>>)>>
           /\ isAlive'[ev'.conn]
           /\ rs'[ev'.conn] = "OPEN"
           /\ ev'.conn \in Registered(clients')]_vars

\* C4: when a send fails during a flush, the flush does not fail, every other
\* OPEN registered connection is sent that flush's batch (one message each,
\* the same trades), the connection whose send failed is sent nothing, and the
\* batch is not kept for a retry.
C4_SendFailureIsolated ==
    (ev.op \in {"flushTick", "addTradeToBatch"} /\ ev.failed # {}) =>
        /\ ~ev.threw
        /\ \A b \in ev.open \ ev.failed : Len(SentTo(ev, b)) = 1
        /\ \A a \in ev.failed : Len(SentTo(ev, a)) = 0
        /\ \A i, j \in DOMAIN ev.sent :
             /\ ev.sent[i].type = "batch"
             /\ Len(ev.sent[i].trades) > 0
             /\ ev.sent[i].trades = ev.sent[j].trades
        /\ \A i \in DOMAIN ev.sent :
             Range(ev.sent[i].trades) \cap Range(messageBuffer) = {}
        /\ ev.op = "flushTick" => messageBuffer = <<>>

\* A flush tick with a failing send to one OPEN connection and a batch sent to
\* another.
C4_Witness ==
    /\ ev.op = "flushTick"
    /\ ev.failed # {}
    /\ \E b \in ev.open \ ev.failed : Len(SentTo(ev, b)) = 1

\* C5: when the periodic flush runs with a non-empty buffer, the buffer is
\* empty when it returns, whatever the number of registered connections.  (The
\* tick adds no trade: the buffer is empty after every tick.)
C5_FlushEmptiesBuffer == ev.op = "flushTick" => messageBuffer = <<>>

\* C6: the trades enqueued between two flush ticks are delivered as exactly
\* one batch holding all of them: enqueueing sends nothing, and the tick sends
\* every OPEN connection one batch of the trades enqueued since the last tick.
C6_OneBatchPerTick ==
    [][/\ ev'.op = "addTradeToBatch" => ev'.sent = <<>>
       /\ (ev'.op = "flushTick" /\ enqueued > tickMark) =>
            \A s \in ev'.open \ ev'.failed :
                SentTo(ev', s) = <<Msg(s, "batch", SinceTick)>>]_vars

\* C7: once a connection is out of the registry (by its close event or by a
\* sweep's termination), no flush, broadcast or pong reply sends it a message.
C7_RemovedNeverSent ==
    [][\A s \in Removed : SentTo(ev', s) = <<>>]_vars

\* A flush tick sends a batch while a connection removed before it exists.
C7_Witness ==
    /\ ev.op = "flushTick"
    /\ Len(ev.sent) > 0
    /\ \E s \in Removed : s \notin ev.swept

\* C8, as stated: on admission the connection gets an identifier no other
\* registered connection has, is registered, and is sent no message.
C8_AdmissionSendsNothing ==
    [][ev'.op = "connection" =>
        /\ \A i \in DOMAIN clients : clients[i].id # clientId'[ev'.conn]
        /\ clients' = Append(clients, [id |-> clientId'[ev'.conn], ws |-> ev'.conn])
        /\ ev'.sent = <<>>]_vars

\* C8, amended: the connection gets an identifier no other registered
\* connection has and is registered; no trade is replayed to it: part_001
\* sends it nothing, part_002 sends it one welcome message of type connection.
C8_AdmissionReplaysNothing ==
    [][ev'.op = "connection" =>
        /\ \A i \in DOMAIN clients : clients[i].id # clientId'[ev'.conn]
        /\ clients' = Append(clients, [id |-> clientId'[ev'.conn], ws |-> ev'.conn])
        /\ ev'.sent = IF variant = "instance"
                      THEN <<Msg(ev'.conn, "connection", <<>>)>>
                      ELSE <<>>]_vars

\* part_002 admits a second connection while trades are buffered.
C8_Witness ==
    /\ variant = "instance"
    /\ ev.op = "connection"
    /\ Len(clients) >= 2
    /\ Len(messageBuffer) > 0
    /\ ev.sent = <<Msg(ev.conn, "connection", <<>>)>>

\* C9: a connection receives only trades enqueued after its admission; in
\* particular it is never sent a trade that was enqueued before the flush tick
\* that preceded its admission (a trade enqueued while the registry was empty
\* and found there by a tick).
C9_NoTradeFromBeforeAdmission ==
    [][\A i \in DOMAIN ev'.sent : \A k \in DOMAIN ev'.sent[i].trades :
            ev'.sent[i].trades[k] > staleAt[ev'.sent[i].to]]_vars

\* The run is over: the completion signal is resolved, the runner is not
\* running, and it has emitted exactly totalTrades.
Completed == promise = "resolved" /\ ~running /\ totalEmitted = totalTrades

\* C10, as stated: a runner started with a finite totalTrades and not stopped
\* from outside eventually completes, with totalEmitted = totalTrades, the
\* completion signal resolved and isRunning false.
C10_RunCompletes == (running /\ ~stopCalled) ~> (stopCalled \/ Completed)

\* C10, amended: it does when batchSize is at least 1; and whenever the
\* completion signal is resolved, the runner is not running and totalEmitted
\* is exactly totalTrades.
C10_RunCompletesWithBatches ==
    /\ [](promise = "resolved" => Completed)
    /\ (running /\ ~stopCalled /\ batchSize >= 1) ~> (stopCalled \/ Completed)

\* A run of several batches, the last one short, that was not stopped.
C10_Witness ==
    /\ Completed
    /\ ~stopCalled
    /\ totalTrades > batchSize
    /\ batchSize >= 1
    /\ totalTrades % batchSize # 0

\* C11: in every state of a run totalEmitted is at most totalTrades, and a
\* tick that finds the runner running emits exactly min(batchSize,
\* totalTrades - totalEmitted) trades, so never more than batchSize.
C11_EmittedWithinTotal ==
    /\ [](totalEmitted <= totalTrades)
    /\ [][(sr'.op = "tick" /\ running) =>
            /\ Len(sr'.batch) = Min(batchSize, totalTrades - totalEmitted)
            /\ Len(sr'.batch) <= batchSize
            /\ totalEmitted' = totalEmitted + Len(sr'.batch)]_vars

\* The last tick of a run emitted a batch shorter than batchSize and brought
\* totalEmitted to totalTrades.
C11_Witness ==
    /\ sr.op = "tick"
    /\ Len(sr.batch) >= 1
    /\ Len(sr.batch) < batchSize
    /\ totalEmitted = totalTrades
    /\ totalTrades > batchSize

\* C12: once stop() has returned no sink is invoked again and totalEmitted
\* does not change until start() is called, also when stop() was called from
\* inside a sink in the middle of a tick.
C12_NoSinkAfterStop ==
    /\ [](sr.stopAt > 0 => sr.stopAt = Len(sr.calls))
    /\ [][(stopCalled /\ ~running /\ sr'.op # "start") =>
            /\ sr'.calls = <<>>
            /\ totalEmitted' = totalEmitted]_vars

\* C13: the promise start() returned is eventually resolved once stop() has
\* been called in the middle of the run.
C13_StopResolvesPromise ==
    (stopCalled /\ promise = "pending") ~> (promise = "resolved")

\* The runner's fields that stop() may touch or leave alone.
RunnerFields ==
    <<totalTrades, batchSize, hasOnStats, hasOnBatch, hasOnTrade, running,
      totalEmitted, timer, statsTimer, statsWindowCount, promise>>

\* C14: after any stop() the runner is not running and both timers are
\* cancelled with their handles cleared; a stop() that finds the runner in
\* that state, after an earlier stop() or before any start(), changes
\* nothing.
C14_StopIdempotent ==
    [][(sr'.op = "stop" \/ sr'.stopAt > 0) =>
        /\ ~running' /\ ~timer' /\ ~statsTimer'
        /\ (sr'.op = "stop" /\ ~running /\ ~timer /\ ~statsTimer)
              => UNCHANGED RunnerFields]_vars

\* A second stop() right after the stop() that ended a run under way.
C14_Witness ==
    /\ sr.op = "stop"
    /\ sr.again
    /\ promise = "pending"
    /\ ~running /\ ~timer /\ ~statsTimer
    /\ totalEmitted >= 1

\* The delays the spec lists, in microseconds.
ListedDelays == <<3000000, 4500000, 6750000, 10125000, 15187500>>

\* C15: the delays of the successive reconnects scheduled with no open in
\* between are 3000, 4500, 6750, 10125 and 15187.5 ms: the first is 3000 ms
\* and each next one is min(previous * 1.5, 30000 ms).
C15_BackoffDelays ==
    /\ Len(delays) <= Len(ListedDelays)
    /\ \A i \in 1..Len(delays) :
        /\ delays[i] = ListedDelays[i]
        /\ i = 1 => delays[i] = initialReconnectDelayMs * UsPerMs
        /\ i > 1 => 2 * delays[i] =
                       Min(3 * delays[i - 1], 2 * maxReconnectDelayMs * UsPerMs)

\* Five reconnects were scheduled in a row.
C15_Witness ==
    /\ cl.op = "close"
    /\ Len(delays) = 5
    /\ cl.scheduled = delays[5]

\* The hook has given up: closed, the attempts used up, nothing scheduled.
GaveUp ==
    /\ wsState = "CLOSED"
    /\ reconnectAttempts = maxReconnectAttempts
    /\ reconnectTimers = 0
    /\ ~connected

\* C16: the attempt counter never exceeds 5; a close that finds it at 5
\* schedules no reconnect, and from then on no connection is attempted and
\* the consumer's connected flag stays false.  (A url change runs the effect
\* again: its connect() is not counted as an attempt of the hook that gave
\* up.)
C16_GivesUpAfterFive ==
    /\ [](reconnectAttempts <= 5)
    /\ [][(cl'.op = "close" /\ reconnectAttempts = 5) =>
            (cl'.scheduled = 0 /\ GaveUp')]_vars
    /\ [][(GaveUp /\ cl'.op # "rerun") =>
            (GaveUp' /\ cl'.op \notin {"mount", "reconnect", "open"})]_vars

C18_TimersFollowConnection ==
    /\ wsState = "CLOSED" =>
        (flushInterval.active = 0 /\ heartbeatInterval.active = 0)
    /\ wsState = "OPEN" =>
        (flushInterval.active = 1 /\ heartbeatInterval.active = 1)

\* A payload that is a batch of trades.
IsBatch(p) == p.ok /\ p.object /\ p.type # "pong" /\ p.hasTrades /\ p.isArray

\* C19: an inbound payload that cannot be decoded is dropped: nothing is
\* added to the buffer or handed to the store, and the status, the timers
\* and the reconnect counters stay as they were; a batch that arrives after
\* it is buffered, and the next flush hands the buffer to the store.
C19_MalformedDropped ==
    /\ [][(cl'.op = "message" /\ ~cl'.payload.ok) =>
            /\ cl'.forwarded = <<>>
            /\ UNCHANGED <<inboundBuffer, wsState, connected,
                           reconnectAttempts, reconnectDelay, flushInterval,
                           heartbeatInterval, reconnectTimers>>]_vars
    /\ [][(cl.op = "message" /\ ~cl.payload.ok /\ cl'.op = "message"
              /\ IsBatch(cl'.payload)) =>
            inboundBuffer' = inboundBuffer \o cl'.payload.trades]_vars
    /\ [][cl'.op = "flush" =>
            (cl'.forwarded = inboundBuffer /\ inboundBuffer' = <<>>)]_vars

\* A payload that cannot be decoded arrived while trades were waiting.
C19_Witness ==
    /\ cl.op = "message"
    /\ ~cl.payload.ok
    /\ inboundBuffer # <<>>
    /\ wsState = "OPEN"

\* C20: once shutdown() has been called no periodic flush and no heartbeat
\* sweep runs any more, and no batch is sent to any connection.
C20_QuietAfterShutdown ==
    [][shutdownCalled =>
        /\ ev'.op \notin {"flushTick", "heartbeat"}
        /\ \A i \in 1..Len(ev'.sent) : ev'.sent[i].type # "batch"]_vars

\* C21: shutdown() closes every connection registered at the call with a
\* normal-closure signal, with the timers stopped before, and when shutdown
\* completes the registry is empty.
C21_ShutdownClosesAll ==
    /\ [][ev'.op = "shutdown" =>
            /\ ev'.closed = Registered(clients)
            /\ ev'.closeCode = 1000
            /\ ev'.timersLeft = {}
            /\ \A s \in Registered(clients) : rs'[s] # "OPEN"]_vars
    /\ [](ev.op = "shutdownDone" => clients = <<>>)

\* The fields of the gateway.
GatewayFields ==
    <<rs, clientId, clients, isAlive, wsIsAlive, sinceHeartbeat, messageBuffer,
      broadcastInterval, shutdownCalled, isRunning>>

\* C22: shutdown() may be called any number of times and with no connection
\* registered; every call completes, and a call after the first leaves the
\* gateway as it was.
C22_ShutdownIdempotent ==
    /\ [][(ev'.op = "shutdown" /\ shutdownCalled) =>
            UNCHANGED GatewayFields]_vars
    /\ [][(ev'.op = "shutdown" /\ clients = <<>>) =>
            (rs' = rs /\ clients' = <<>>)]_vars
    /\ (shutdownPending > 0) ~> (shutdownPending = 0)

\* A symbol's base price in cents.
BaseCents(sym) ==
    IF engine = "mock" THEN basePrice[sym] ELSE 100 * basePrice[sym]

\* C23: after any calls of nextTrade / generateBatch every symbol's price,
\* and the price of every trade returned, is positive and within
\* [0.5 * basePrice, 2 * basePrice], whatever the percentage changes were.
C23_PriceWithinHardBounds ==
    /\ \A sym \in Symbols :
        LET d == IF engine = "mock" THEN 1 ELSE Pow(PriceDen, scale[sym])
        IN /\ price[sym] > 0
           /\ 2 * price[sym] >= basePrice[sym] * d
           /\ price[sym] <= 2 * basePrice[sym] * d
    /\ \A i \in 1..Len(eg.trades) :
        LET t == eg.trades[i]
        IN /\ t.price > 0
           /\ 2 * t.price >= BaseCents(t.symbol)
           /\ t.price <= 2 * BaseCents(t.symbol)

\* C24: between resets each trade returned has an id one greater than the
\* trade returned before it, so ids strictly increase with no duplicates,
\* and generateBatch(count) returns exactly count trades.
C24_IdsIncreaseByOne ==
    [][eg'.op \in {"nextTrade", "generateBatch"} =>
        /\ Len(eg'.trades) = eg'.count
        /\ \A i \in 1..Len(eg'.trades) :
            /\ i > 1 => eg'.trades[i].id = eg'.trades[i - 1].id + 1
            /\ (i = 1 /\ lastId # -1) => eg'.trades[i].id = lastId + 1]_vars

\* A batch of one trade right after a single trade.
C24_Witness ==
    /\ eg.op = "generateBatch"
    /\ eg.count = 1
    /\ Len(eg.trades) = 1
    /\ generated = 2
    /\ eg.trades[1].id = lastId
    /\ lastId >= 1

\* C25: after reset() every symbol's price is exactly its basePrice, its
\* momentum is 0, its volatilityMultiplier is 1 and the id counter is 0;
\* basePrice and the symbols are as before.
C25_ResetRestores ==
    [][eg'.op = "reset" =>
        /\ \A sym \in Symbols :
            /\ price'[sym] = basePrice'[sym]
            /\ scale'[sym] = 0
            /\ momentum'[sym] = 0
            /\ engine = "mock" => volatilityMultiplier'[sym] = 1000
        /\ tradeId' = 0
        /\ basePrice' = basePrice
        /\ DOMAIN price' = Symbols]_vars

\* C26: when a send to a connection fails during a flush, that connection is
\* removed from the registry, and the entries of the other connections stay
\* (apart from those the same tick's sweep visits).
C26_FailedSendRemoved ==
    [][(ev'.op \in {"flushTick", "addTradeToBatch"} /\ ev'.failed # {}) =>
        /\ ev'.failed \cap Registered(clients') = {}
        /\ Registered(clients) \ (ev'.failed \cup ev'.swept)
              \subseteq Registered(clients')]_vars

\* C29: the heartbeat sweep has its own timer: a flush tick visits no
\* connection for a sweep, terminates none and leaves the liveness flags and
\* the registry as they were.
C29_FlushTickNeverSweeps ==
    [][ev'.op = "flushTick" =>
        /\ ev'.swept = {}
        /\ ev'.terminated = {}
        /\ isAlive' = isAlive
        /\ wsIsAlive' = wsIsAlive
        /\ Registered(clients') = Registered(clients)]_vars

\* C27: no accept, removal on close or mark-alive on pong or ping happens
\* while a flush or a sweep is going over the registry: until the loop
\* returns every step is the loop's own, taking the entries one by one; the
\* registry changes only by the sweep deleting the entry it is at, the
\* liveness marks only by the sweep clearing the mark of the entry it is at,
\* and a loop begins only when no other is in progress.
C27_NoInterleaving ==
    /\ [][task.kind # "idle" =>
            /\ task' # task
            /\ task'.kind # "idle" =>
                  /\ Len(task'.todo) = Len(task.todo) - 1
                       \/ (task.kind = "flush" /\ task.todo = <<>>)
                  /\ task'.kind = task.kind \/ task.kind = "flush"
            /\ Registered(clients') # Registered(clients) =>
                  /\ task.kind = "sweep"
                  /\ Registered(clients')
                        = Registered(clients) \ {Head(task.todo).ws}
            /\ \A s \in Sockets :
                  /\ wsIsAlive'[s] = wsIsAlive[s]
                  /\ isAlive'[s] # isAlive[s] =>
                        /\ task.kind = "sweep"
                        /\ s = Head(task.todo).ws
                        /\ ~isAlive'[s]]_vars
    /\ [][(task.kind = "idle" /\ task'.kind # "idle") =>
            /\ task'.todo = clients
            /\ UNCHANGED <<clients, isAlive, wsIsAlive>>]_vars

\* A sweep past its first entry while a registered socket's 'close' waits
\* for the loop to return.
C27_Witness ==
    /\ task.kind = "sweep"
    /\ Len(task.todo) >= 1
    /\ Len(task.todo) < Len(clients)
    /\ \E s \in Registered(clients) : rs[s] = "CLOSING"

\* C28: when publishing a batch fails the tick records one error, the
\* published counters are not increased for that batch, the service stays
\* running with its interval, and the next tick generates and publishes.
C28_PublishFailureRecorded ==
    /\ [][sv'.failed =>
            /\ errors' = errors + 1
            /\ tradesPublished' = tradesPublished
            /\ batchesPublished' = batchesPublished
            /\ dsIsRunning' = dsIsRunning
            /\ streamInterval' = streamInterval]_vars
    /\ [][(sv.failed /\ sv'.op = "tick") =>
            /\ tradesGenerated' = tradesGenerated + dsBatchSize
            /\ (batchesPublished' = batchesPublished + 1
                   \/ errors' = errors + 1 \/ inFlight' = inFlight + 1)]_vars

\* A batch published after one whose publish failed.
C28_Witness ==
    /\ sv.op = "settled"
    /\ ~sv.failed
    /\ errors = 1
    /\ tradesPublished = dsBatchSize
    /\ tradesGenerated = 2 * dsBatchSize
    /\ dsBatchSize >= 1
    /\ dsIsRunning

\* C30: after stop() the counters tradesGenerated, tradesPublished,
\* batchesPublished and errors do not change until the next start() (or a
\* resetStats() the caller asks for), also when a publish was in flight when
\* stop() was called.
C30_CountersFrozenAfterStop ==
    [][(~dsIsRunning /\ sv'.op \notin {"start", "reset"}) =>
        UNCHANGED <<tradesGenerated, tradesPublished, batchesPublished,
                    errors>>]_vars

\* The object a flush hands to JSON.stringify: part_002's batch (the
\* timestamp left out), part_001's { trades }.
BatchEnvelope(trades) ==
    IF variant = "instance"
    THEN [type |-> "batch", trades |-> trades, count |-> Len(trades)]
    ELSE [trades |-> trades]

\* The trades of the messages ms, one after the other.
RECURSIVE TradesOf(_)
TradesOf(ms) == IF ms = <<>> THEN <<>> ELSE Head(ms).trades \o TradesOf(Tail(ms))

\* Every enqueued trade is in the buffer or went out in one batch, in
\* enqueue order: what a step sends an OPEN connection (whose sends do not
\* fail), followed by the buffer it leaves, is the buffer it found followed
\* by the trades it enqueued.
ExactlyOnceInOrder ==
    [][(ev'.op \in {"flushTick", "addTradeToBatch"} /\ OpenIn(clients, rs) # {}) =>
        \A s \in OpenIn(clients, rs) \ ev'.failed :
            TradesOf(SentTo(ev', s)) \o messageBuffer'
                = messageBuffer \o ev'.enq]_vars

\* Every batch sent has a count field, the number of its trades.
CountIsLength ==
    \A i \in DOMAIN ev.sent :
        ev.sent[i].type = "batch" =>
            LET b == BatchEnvelope(ev.sent[i].trades)
            IN /\ "count" \in DOMAIN b
               /\ b.count = Len(b.trades)

\* C31: with at least one OPEN connection every enqueued trade is carried
\* by exactly one batch, never duplicated or dropped, in enqueue order within
\* and across batches, and each batch's count field is the number of trades
\* it carries.
C31_ExactlyOneBatch == ExactlyOnceInOrder /\ [][CountIsLength']_vars

\* C32: start() on a scheduler that is running creates no emission or stats
\* timer and leaves totalEmitted and the stats counters as they were; no
\* timer outlives the running flag, so start() never creates a timer beside
\* a live one, and at most one emission timer exists under any sequence of
\* start() and stop() (StreamRunner and DataStreamingService).
C32_StartWhileRunning ==
    /\ [][(sr'.op = "start" /\ running) =>
            UNCHANGED <<timer, statsTimer, totalEmitted, statsWindowCount,
                        running, promise>>]_vars
    /\ [][(sv'.op = "start" /\ dsIsRunning) =>
            UNCHANGED <<streamInterval, tradesGenerated, tradesPublished,
                        batchesPublished, errors, dsIsRunning>>]_vars
    /\ [](~running => (~timer /\ ~statsTimer))
    /\ [](streamInterval.active <= 1)
    /\ [](streamInterval.active = 1 <=> dsIsRunning)

\* start() called on a runner that is running, has emitted trades and
\* reports stats.
C32_Witness ==
    /\ sr.op = "start"
    /\ running
    /\ timer
    /\ statsTimer
    /\ totalEmitted > 0

\* C33: after the hook's cleanup has run, the connection of that hook run
\* makes no new connection attempt and no reconnect timer is pending.
C33_QuietAfterCleanup ==
    /\ [](hook = "unmounted" => reconnectTimers = 0)
    /\ [][hook = "unmounted" =>
            /\ cl'.op # "reconnect"
            /\ wsState' = "CONNECTING" => wsState = "CONNECTING"]_vars

\* The sockets of the hook that are CONNECTING or OPEN.
LiveSockets ==
    (IF wsState \in {"CONNECTING", "OPEN"} THEN 1 ELSE 0)
        + orphans.CONNECTING + orphans.OPEN

\* C34: the hook has at most one socket CONNECTING or OPEN at any time, and
\* a connection attempt starts only after the previous socket has closed.
C34_OneLiveSocket ==
    /\ [](LiveSockets <= 1)
    /\ [][(cl'.op \in {"mount", "reconnect", "rerun"} /\ urlOk) =>
            /\ wsState \in {"NONE", "CLOSED"}
            /\ orphans = NoOrphans]_vars

\* C35: every trade decoded from a batch is eventually handed to the store,
\* once and in arrival order: the buffer only grows by the trades of a batch
\* at its end, a flush hands the whole buffer over in one call and empties
\* it, no other step touches it, and a buffer that holds trades is
\* eventually flushed, also when the connection closes meanwhile.
C35_BufferedTradesDelivered ==
    /\ [][inboundBuffer' # inboundBuffer =>
            \/ /\ cl'.op = "message"
               /\ IsBatch(cl'.payload)
               /\ inboundBuffer' = inboundBuffer \o cl'.payload.trades
               /\ cl'.forwarded = <<>>
            \/ /\ cl'.op = "flush"
               /\ cl'.forwarded = inboundBuffer
               /\ inboundBuffer' = <<>>]_vars
    /\ [][cl'.forwarded # <<>> => cl'.op = "flush"]_vars
    /\ (inboundBuffer # <<>>) ~> (cl.op = "flush" /\ inboundBuffer = <<>>)

\* C36: each stats report covers exactly the trades emitted since the
\* previous report, or since start() for the first one: the window counter
\* is zero after every stats tick, the window counts reported in a run sum
\* to at most totalEmitted (to exactly totalEmitted right after a report),
\* the counter always holds the trades emitted and not yet reported, and a
\* stats tick emits no trades and leaves totalEmitted alone.
C36_StatsWindow ==
    /\ [][sr'.op = "stats" =>
            /\ statsWindowCount' = 0
            /\ reported' = totalEmitted
            /\ totalEmitted' = totalEmitted
            /\ sr'.batch = <<>>]_vars
    /\ [](reported <= totalEmitted)
    /\ [](statsWindowCount = totalEmitted - reported)

\* A stats report has just covered trades emitted in the run.
C36_Witness ==
    /\ sr.op = "stats"
    /\ statsWindowCount = 0
    /\ reported = totalEmitted
    /\ totalEmitted >= 2

\* The interval of 1000 ms / ceil(rate / size), ceil(rate / size) being the
\* least number of batches of the given size that hold rate trades.
TicksFor(rate, size) ==
    CHOOSE k \in 1..rate : k * size >= rate /\ (k - 1) * size < rate
IsTickInterval(ms, rate, size) ==
    ms.den > 0 /\ ms.num * TicksFor(rate, size) = 1000 * ms.den

\* C37: the interval a scheduler creates its emission timer with is
\* 1000 ms / ceil(targetRate / batchSize) for every positive integer rate
\* and batch size, also for a rate that is no multiple of the batch size
\* and for a rate below it (StreamRunner and DataStreamingService).
C37_TickInterval ==
    /\ []((timer /\ batchSize >= 1) =>
             IsTickInterval(intervalMs, tradesPerSecond, batchSize))
    /\ []((streamInterval.active > 0 /\ dsBatchSize >= 1) =>
             IsTickInterval(dsIntervalMs, dsTradesPerSecond, dsBatchSize))

\* The most recently added trades since the last clearTrades, at most
\* maxStoredTrades of them, in arrival order.
MostRecent ==
    LET n == Len(stAdded) - stCleared
        k == Min(maxStoredTrades, n)
    IN [i \in 1..k |-> stAdded[Len(stAdded) - k + i]]

\* C38: after any sequence of addTrades actions the store holds at most
\* 1500 trades, exactly the most recently added ones in arrival order;
\* clearTrades empties the list and leaves the filters and the connected
\* flag as they were.
C38_StoreKeepsMostRecent ==
    /\ [](Len(stTrades) <= 1500)
    /\ [](stTrades = MostRecent)
    /\ [][sl'.op = "clearTrades" =>
            /\ stTrades' = <<>>
            /\ UNCHANGED <<symbolFilter, sideFilter, connected>>]_vars

\* An addTrades has pushed the list over the capacity and it was cut back.
C38_Witness ==
    /\ sl.op = "addTrades"
    /\ Len(stTrades) = maxStoredTrades
    /\ Len(stAdded) - stCleared > maxStoredTrades
    /\ stTrades[1] > 1

\* The order of the shutdown's steps.
ShutdownOrder == <<"streaming", "gateway", "broker", "http">>
IsPrefix(a, b) == Len(a) <= Len(b) /\ a = SubSeq(b, 1, Len(a))

====
